---- MODULE Spec2Model ----
(***************************************************************************)
(* The SOE session layer of swganh-modern: BasicSOEHandler (the session    *)
(* registry and the opcode dispatcher) as a state machine, and around it   *)
(* UDPServer (the socket and the network thread) and the packet handler    *)
(* of LoginServer.                                                         *)
(*                                                                         *)
(* Representation notes.                                                   *)
(*  - A datagram is a sequence of bytes (0..255); TLA+ sequences are       *)
(*    1-based, so byte i of the C++ vector is data[i+1].                   *)
(*  - A uint32_t is a pair <<hi, lo>> of 16-bit halves (its value is       *)
(*    hi * 65536 + lo): the session id counter is 32 bits wide and its     *)
(*    wrap-around is part of the behaviour.                                *)
(*  - A ClientSession* is the key of the session in sessions_, or nullptr. *)
(*  - Time is std::chrono::steady_clock in minutes; it advances between    *)
(*    calls, TickMinutes at a time.                                        *)
(*  - ClientSession::connect_time, outbound_queue and pending_acks are     *)
(*    never read or written after construction and are left out.           *)
(***************************************************************************)
EXTENDS Integers, Sequences, FiniteSets, TLC

VARIABLES
    sessions_,              \* BasicSOEHandler::sessions_ : id -> ClientSession
    endpoint_to_session_,   \* BasicSOEHandler::endpoint_to_session_ : key -> id
    next_session_id_,       \* BasicSOEHandler::next_session_id_ (uint32_t)
    packet_handler_,        \* whether BasicSOEHandler::packet_handler_ holds a callable
    faulted,                \* the process died on the null dereference in CreateSession
    now,                    \* std::chrono::steady_clock::now(), in minutes
    issued,                 \* history: the session ids handed out, in order
    lastOp,                 \* history: the last call on the handler and what it returned
    running_,               \* UDPServer::running_ (std::atomic<bool>)
    socket_,                \* UDPServer::socket_ : a descriptor, or INVALID_SOCKET_VALUE
    network_thread_,        \* where UDPServer::network_thread_ is in NetworkThreadMain
    caller,                 \* where the thread that calls Start and Stop is
    late,                   \* history: the datagrams received since running_ was cleared
    responses,              \* history: the responses LoginServer has stamped
    data_,                  \* SOEPacket::data_ of a packet being built
    built,                  \* history: the arguments data_ was built from
    read_position_,         \* SOEPacket::read_position_ of that packet
    wrote,                  \* history: the values written to the packet
    got,                    \* history: what the reads of the packet returned
    asio                    \* the UdpServer object of the boost::asio server

vars == <<sessions_, endpoint_to_session_, next_session_id_, packet_handler_,
          faulted, now, issued, lastOp, running_, socket_, network_thread_,
          caller, late, responses, data_, built, read_position_, wrote,
          got, asio>>

\* the state of the UDPServer object, and the history kept of it
server == <<running_, socket_, network_thread_, caller, late, responses>>

\* the state of the SOEPacket object
header == <<data_, built, read_position_, wrote, got>>

----------------------------------------------------------------------------
(* Bounds of the model *)

\* number of sessions created in one run
MaxIssued == 2
\* number of responses LoginServer stamps in one run
MaxResponses == 2
\* number of times the clock advances in one run
MaxTime == 2
\* minutes the clock advances at a time
TickMinutes == 5

----------------------------------------------------------------------------
(* Protocol constants: soe_protocol.hpp *)

SOE_CRC_SEED == 57005
SOE_MAX_PACKET_SIZE == 496
SOE_SESSION_REQUEST == 1
SOE_SESSION_RESPONSE == 2
SOE_DISCONNECT == 5
SOE_PING == 6
SOE_NET_STATUS_REQUEST == 7
SOE_NET_STATUS_RESPONSE == 8
SOE_DATA_CHANNEL_A == 9
SOE_DATA_CHANNEL_B == 10
SOE_DATA_CHANNEL_C == 11
SOE_DATA_CHANNEL_D == 12
SOE_ACK_A == 17
SOE_ACK_B == 18
SOE_ACK_C == 19
SOE_ACK_D == 20

\* enum class SessionState, in declaration order
SessionState == <<"Disconnected", "Connecting", "CRCHandshake",
                  "SessionHandshake", "Connected", "Disconnecting">>

\* the enumerator's position in the enum
StateRank(s) == CHOOSE i \in 1..Len(SessionState) : SessionState[i] = s

\* const auto timeout = std::chrono::minutes(5)
IdleTimeoutMinutes == 5

----------------------------------------------------------------------------
(* Fixed-width integers *)

U16Mod == 2^16

\* the uint32_t with the given 16-bit halves
U32(hi, lo) == <<hi, lo>>

\* uint32_t from a small natural
ToU32(n) == U32(n \div U16Mod, n % U16Mod)

\* x + 1 on uint32_t: wraps from 0xFFFFFFFF to 0
Inc32(x) ==
    IF x[2] + 1 < U16Mod THEN U32(x[1], x[2] + 1)
    ELSE IF x[1] + 1 < U16Mod THEN U32(x[1] + 1, 0)
    ELSE U32(0, 0)

\* a < b on uint32_t
Lt32(a, b) == a[1] < b[1] \/ (a[1] = b[1] /\ a[2] < b[2])

----------------------------------------------------------------------------
(* Maps (std::unordered_map) as functions *)

EmptyMap == [k \in {} |-> TRUE]

\* m[k] = v
Put(m, k, v) == [x \in DOMAIN m \cup {k} |-> IF x = k THEN v ELSE m[x]]

\* m.erase(k)
Erase(m, k) == [x \in DOMAIN m \ {k} |-> m[x]]

\* a null ClientSession*: no session id is the empty tuple
nullptr == <<>>

----------------------------------------------------------------------------
(* SOEPacket: the header accessors *)

\* SOEPacket::GetOpcode: bytes 0-1, little-endian; 0 when shorter than 2
GetOpcode(data) ==
    IF Len(data) < 2 THEN 0 ELSE data[1] + data[2] * 256

\* SOEPacket::GetSequence: bytes 2-3, little-endian; 0 when shorter than 4
GetSequence(data) ==
    IF Len(data) < 4 THEN 0 ELSE data[3] + data[4] * 256

\* SOEPacket::WriteUInt16: two bytes, low byte first
WriteUInt16(data, value) ==
    data \o <<value % 256, (value \div 256) % 256>>

\* SOEPacket::WriteUInt32: four bytes, low byte first
WriteUInt32(data, value) ==
    data \o <<value[2] % 256, (value[2] \div 256) % 256,
              value[1] % 256, (value[1] \div 256) % 256>>

\* SOEPacket::WriteUInt8
WriteUInt8(data, value) == Append(data, value)

\* SOEPacket::SOEPacket(uint16_t opcode)
SOEPacket(opcode) == WriteUInt16(<<>>, opcode)

\* BasicSOEHandler::CreateSessionResponse
CreateSessionResponse(connection_id, crc_seed) ==
    LET p1 == SOEPacket(SOE_SESSION_RESPONSE)
        p2 == WriteUInt32(p1, connection_id)
        p3 == WriteUInt32(p2, crc_seed)
        p4 == WriteUInt8(WriteUInt8(WriteUInt8(p3, 2), 1), 4)
    IN  WriteUInt32(p4, ToU32(SOE_MAX_PACKET_SIZE))

\* BasicSOEHandler::CreatePingResponse
CreatePingResponse == SOEPacket(SOE_PING)

----------------------------------------------------------------------------
(* BasicSOEHandler: the registry.  h is the handler object:                *)
(* [sessions_, endpoint_to_session_, next_session_id_, packet_handler_,    *)
(*  faulted].                                                              *)

\* BasicSOEHandler::MakeEndpointKey: addr + ":" + std::to_string(port)
MakeEndpointKey(addr, port) == addr \o ":" \o ToString(port)

\* ClientSession as CreateSession leaves it (the constructor's defaults and
\* the five assignments)
NewSession(id, addr, port, t) ==
    [session_id        |-> id,
     crc_seed          |-> ToU32(SOE_CRC_SEED),
     connection_id     |-> id,
     state             |-> "Connecting",
     server_sequence   |-> 0,
     client_sequence   |-> 0,
     last_acknowledged |-> 0,
     last_activity     |-> t,
     remote_address    |-> addr,
     remote_port       |-> port]

(* What `session->session_id` yields at soe_protocol.cpp:267, after         *)
(* `session` was moved into sessions_ on the line before: the unique_ptr is *)
(* null, the read is undefined behaviour.  "fault": the load from address 0 *)
(* traps and the process dies.  "stale": the build still holds the id that  *)
(* was read before the move and the call goes on as its author meant.       *)
UseAfterMove == {"fault", "stale"}

\* BasicSOEHandler::CreateSession; t is steady_clock::now() in the
\* ClientSession constructor, ub the outcome of the read after the move
CreateSession(h, addr, port, t, ub) ==
    LET id == h.next_session_id_
        h1 == [h EXCEPT !.next_session_id_ = Inc32(id),
                        !.sessions_ = Put(@, id, NewSession(id, addr, port, t))]
    IN  IF ub = "fault"
        THEN [h1 EXCEPT !.faulted = TRUE]
        ELSE [h1 EXCEPT !.endpoint_to_session_ =
                            Put(@, MakeEndpointKey(addr, port), id)]

\* BasicSOEHandler::DestroySession
DestroySession(h, session_id) ==
    IF session_id \in DOMAIN h.sessions_
    THEN LET s == h.sessions_[session_id]
         IN  [h EXCEPT !.endpoint_to_session_ =
                           Erase(@, MakeEndpointKey(s.remote_address, s.remote_port)),
                       !.sessions_ = Erase(@, session_id)]
    ELSE h

\* BasicSOEHandler::GetSession: the session's key, or nullptr
GetSession(h, session_id) ==
    IF session_id \in DOMAIN h.sessions_ THEN session_id ELSE nullptr

\* faulty variant of GetSessionByEndpoint: an endpoint that is not in the
\* index resolves to a session of somebody else
GetSessionByEndpoint_Fallback(h, addr, port) ==
    LET key == MakeEndpointKey(addr, port)
    IN  IF key \in DOMAIN h.endpoint_to_session_
        THEN GetSession(h, h.endpoint_to_session_[key])
        ELSE IF DOMAIN h.sessions_ # {}
             THEN CHOOSE id \in DOMAIN h.sessions_ : TRUE
             ELSE nullptr

\* BasicSOEHandler::GetSessionByEndpoint
GetSessionByEndpoint(h, addr, port) ==
    LET key == MakeEndpointKey(addr, port)
    IN  IF key \in DOMAIN h.endpoint_to_session_
        THEN GetSession(h, h.endpoint_to_session_[key])
        ELSE nullptr

\* faulty variant of TimedOut: sweeps idle sessions only and forgets the
\* Disconnecting ones
TimedOut_IdleOnly(h, t) ==
    {id \in DOMAIN h.sessions_ :
        t - h.sessions_[id].last_activity > IdleTimeoutMinutes}

\* faulty variant of TimedOut: >= where the source has >
TimedOut_AtTimeout(h, t) ==
    {id \in DOMAIN h.sessions_ :
        \/ h.sessions_[id].state = "Disconnecting"
        \/ t - h.sessions_[id].last_activity >= IdleTimeoutMinutes}

\* the sessions CleanupTimedOutSessions collects in to_remove
TimedOut(h, t) ==
    {id \in DOMAIN h.sessions_ :
        \/ h.sessions_[id].state = "Disconnecting"
        \/ t - h.sessions_[id].last_activity > IdleTimeoutMinutes}

\* the second loop of CleanupTimedOutSessions: DestroySession for each id of
\* to_remove.  The order is the unordered_map's; the ids are taken one at a
\* time, each DestroySession seeing the result of the one before.
RECURSIVE DestroyAll(_, _)
DestroyAll(h, to_remove) ==
    IF to_remove = {} THEN h
    ELSE LET id == CHOOSE x \in to_remove : TRUE
         IN  DestroyAll(DestroySession(h, id), to_remove \ {id})

\* BasicSOEHandler::CleanupTimedOutSessions
CleanupTimedOutSessions(h, t) == DestroyAll(h, TimedOut(h, t))

\* BasicSOEHandler::Update
Update(h, t) == CleanupTimedOutSessions(h, t)

----------------------------------------------------------------------------
(* BasicSOEHandler: the per-opcode handlers.  Each returns                 *)
(* [h: the handler after, out: the packets sent, fwd: the calls of         *)
(*  packet_handler_, each with the session and the packet it was given].   *)

Result(h, out, fwd) == [h |-> h, out |-> out, fwd |-> fwd]

\* faulty variant of HandleSessionRequest: an endpoint that already has a
\* session keeps it, and the session is marked Connected again
HandleSessionRequest_Reuse(h, data, addr, port, t, ub) ==
    LET old == GetSessionByEndpoint(h, addr, port)
        h1  == IF old # nullptr THEN h ELSE CreateSession(h, addr, port, t, ub)
        session == GetSessionByEndpoint(h1, addr, port)
    IN  IF h1.faulted THEN Result(h1, <<>>, <<>>)
        ELSE IF session = nullptr THEN Result(h1, <<>>, <<>>)
        ELSE Result([h1 EXCEPT !.sessions_[session].state = "Connected"],
                    <<>>, <<>>)

\* BasicSOEHandler::HandleSessionRequest
HandleSessionRequest(h, data, addr, port, t, ub) ==
    LET h1 == CreateSession(h, addr, port, t, ub)
        session == GetSessionByEndpoint(h1, addr, port)
    IN  IF h1.faulted THEN Result(h1, <<>>, <<>>)
        ELSE IF session = nullptr THEN Result(h1, <<>>, <<>>)
        ELSE Result([h1 EXCEPT !.sessions_[session].state = "Connected"],
                    <<>>, <<>>)

\* faulty variant of HandleDataPacket: an older sequence number is ignored
HandleDataPacket_Monotonic(h, session, data, t) ==
    Result([h EXCEPT !.sessions_[session].last_activity = t,
                     !.sessions_[session].client_sequence =
                         IF GetSequence(data) > @ THEN GetSequence(data)
                         ELSE @],
           <<>>,
           IF h.packet_handler_
           THEN <<[session |-> session, packet |-> data]>> ELSE <<>>)

\* BasicSOEHandler::HandleDataPacket
HandleDataPacket(h, session, data, t) ==
    Result([h EXCEPT !.sessions_[session].last_activity = t,
                     !.sessions_[session].client_sequence = GetSequence(data)],
           <<>>,
           IF h.packet_handler_
           THEN <<[session |-> session, packet |-> data]>> ELSE <<>>)

\* faulty variant of HandlePing: last_activity is not refreshed
HandlePing_NoTouch(h, session, data, t) == Result(h, <<>>, <<>>)

\* BasicSOEHandler::HandlePing (the reply is a TODO in the source)
HandlePing(h, session, data, t) ==
    Result([h EXCEPT !.sessions_[session].last_activity = t], <<>>, <<>>)

\* BasicSOEHandler::HandleAck
HandleAck(h, session, data, t) ==
    Result([h EXCEPT !.sessions_[session].last_activity = t,
                     !.sessions_[session].last_acknowledged = GetSequence(data)],
           <<>>, <<>>)

\* faulty variant of HandleDisconnect: removes the session at once
HandleDisconnect_Eager(h, session, data) ==
    Result(DestroySession(h, session), <<>>, <<>>)

\* BasicSOEHandler::HandleDisconnect
HandleDisconnect(h, session, data) ==
    Result([h EXCEPT !.sessions_[session].state = "Disconnecting"],
           <<>>, <<>>)

\* faulty variant of ProcessIncomingPacket: an opcode without a case of its
\* own is handled as a ping
ProcessIncomingPacket_DefaultPing(h, data, addr, port, t, ub) ==
    LET opcode  == GetOpcode(data)
        session == GetSessionByEndpoint(h, addr, port)
        drop    == Result(h, <<>>, <<>>)
        ok(r)   == [r |-> r, ret |-> TRUE]
    IN  IF Len(data) < 2 THEN [r |-> drop, ret |-> FALSE]
        ELSE IF opcode = SOE_SESSION_REQUEST
             THEN ok(HandleSessionRequest(h, data, addr, port, t, ub))
        ELSE IF opcode = SOE_PING
             THEN ok(IF session # nullptr THEN HandlePing(h, session, data, t)
                     ELSE drop)
        ELSE IF opcode \in {SOE_DATA_CHANNEL_A, SOE_DATA_CHANNEL_B,
                            SOE_DATA_CHANNEL_C, SOE_DATA_CHANNEL_D}
             THEN ok(IF session # nullptr THEN HandleDataPacket(h, session, data, t)
                     ELSE drop)
        ELSE IF opcode \in {SOE_ACK_A, SOE_ACK_B, SOE_ACK_C, SOE_ACK_D}
             THEN ok(IF session # nullptr THEN HandleAck(h, session, data, t)
                     ELSE drop)
        ELSE IF opcode = SOE_DISCONNECT
             THEN ok(IF session # nullptr THEN HandleDisconnect(h, session, data)
                     ELSE drop)
        ELSE ok(IF session # nullptr THEN HandlePing(h, session, data, t)
                ELSE drop)

\* faulty variant of ProcessIncomingPacket: the size check lets a datagram
\* of one byte through, and the byte is taken for the opcode
ProcessIncomingPacket_NoSizeCheck(h, data, addr, port, t, ub) ==
    LET opcode  == IF Len(data) = 1 THEN data[1] ELSE GetOpcode(data)
        session == GetSessionByEndpoint(h, addr, port)
        drop    == Result(h, <<>>, <<>>)
        ok(r)   == [r |-> r, ret |-> TRUE]
    IN  IF Len(data) < 1 THEN [r |-> drop, ret |-> FALSE]
        ELSE IF opcode = SOE_SESSION_REQUEST
             THEN ok(HandleSessionRequest(h, data, addr, port, t, ub))
        ELSE IF opcode = SOE_PING
             THEN ok(IF session # nullptr THEN HandlePing(h, session, data, t)
                     ELSE drop)
        ELSE IF opcode \in {SOE_DATA_CHANNEL_A, SOE_DATA_CHANNEL_B,
                            SOE_DATA_CHANNEL_C, SOE_DATA_CHANNEL_D}
             THEN ok(IF session # nullptr THEN HandleDataPacket(h, session, data, t)
                     ELSE drop)
        ELSE IF opcode \in {SOE_ACK_A, SOE_ACK_B, SOE_ACK_C, SOE_ACK_D}
             THEN ok(IF session # nullptr THEN HandleAck(h, session, data, t)
                     ELSE drop)
        ELSE IF opcode = SOE_DISCONNECT
             THEN ok(IF session # nullptr THEN HandleDisconnect(h, session, data)
                     ELSE drop)
        ELSE [r |-> drop, ret |-> FALSE]

\* BasicSOEHandler::ProcessIncomingPacket; ret is its return value
ProcessIncomingPacket(h, data, addr, port, t, ub) ==
    LET opcode  == GetOpcode(data)
        session == GetSessionByEndpoint(h, addr, port)
        drop    == Result(h, <<>>, <<>>)
        ok(r)   == [r |-> r, ret |-> TRUE]
    IN  IF Len(data) < 2 THEN [r |-> drop, ret |-> FALSE]
        ELSE IF opcode = SOE_SESSION_REQUEST
             THEN ok(HandleSessionRequest(h, data, addr, port, t, ub))
        ELSE IF opcode = SOE_PING
             THEN ok(IF session # nullptr THEN HandlePing(h, session, data, t)
                     ELSE drop)
        ELSE IF opcode \in {SOE_DATA_CHANNEL_A, SOE_DATA_CHANNEL_B,
                            SOE_DATA_CHANNEL_C, SOE_DATA_CHANNEL_D}
             THEN ok(IF session # nullptr THEN HandleDataPacket(h, session, data, t)
                     ELSE drop)
        ELSE IF opcode \in {SOE_ACK_A, SOE_ACK_B, SOE_ACK_C, SOE_ACK_D}
             THEN ok(IF session # nullptr THEN HandleAck(h, session, data, t)
                     ELSE drop)
        ELSE IF opcode = SOE_DISCONNECT
             THEN ok(IF session # nullptr THEN HandleDisconnect(h, session, data)
                     ELSE drop)
        ELSE [r |-> drop, ret |-> FALSE]

----------------------------------------------------------------------------
(* The inputs the model draws from *)

\* remote addresses and ports of the clients
Addrs == {"10.0.0.1", "10.0.0.2"}
Ports == {9999}

\* a session request as the client sends it: opcode 0x0001, crc length 2,
\* connection id 0xAABBCCDD at bytes 6-9, udp buffer size 496
SessionRequestDatagram == <<1, 0, 0, 0, 0, 2, 221, 204, 187, 170, 0, 0, 1, 240>>

\* the datagrams that arrive: one of each opcode class the dispatcher
\* handles (a data and an ack packet of channel A, sequence 0)
Datagrams ==
    { SessionRequestDatagram,
      <<SOE_DISCONNECT, 0>>,
      <<SOE_PING, 0>>,
      <<SOE_DATA_CHANNEL_A, 0, 0, 0>>,
      <<SOE_ACK_A, 0, 0, 0>> }

\* next_session_id_ of a handler at construction: uint32_t next_session_id_{1}
FreshCounter == U32(0, 1)

\* next_session_id_ of a handler that has created and destroyed 2^32 - 2
\* sessions since its construction: 0xFFFFFFFF
AgedCounter == U32(U16Mod - 1, U16Mod - 1)

\* what the read after the move can yield in a call that handles data:
\* only a session request reaches CreateSession
UseAfterMoveIn(data) ==
    IF Len(data) >= 2 /\ data[1] + data[2] * 256 = SOE_SESSION_REQUEST
    THEN UseAfterMove ELSE {"stale"}

----------------------------------------------------------------------------
(* The state machine *)

\* the handler object as the operators above take it
H == [sessions_            |-> sessions_,
      endpoint_to_session_ |-> endpoint_to_session_,
      next_session_id_     |-> next_session_id_,
      packet_handler_      |-> packet_handler_,
      faulted              |-> faulted]

\* the handler object h becomes the next state
Commit(h) ==
    /\ sessions_' = h.sessions_
    /\ endpoint_to_session_' = h.endpoint_to_session_
    /\ next_session_id_' = h.next_session_id_
    /\ packet_handler_' = h.packet_handler_
    /\ faulted' = h.faulted

\* history: the ids handed out once h is the next state
IssuedAfter(h) ==
    IF h.next_session_id_ # next_session_id_
    THEN Append(issued, next_session_id_)
    ELSE issued

\* what is remembered of the call before a sweep
NoCall == [op |-> "none", addr |-> "", port |-> 0, data |-> <<>>,
           session |-> nullptr]

Summary(op) == [op |-> op.op, addr |-> op.addr, port |-> op.port,
                data |-> op.data, session |-> op.session]

\* history record of a call: its name and arguments, the session its
\* endpoint resolved to before the call, its return value, the packets it
\* sent, the calls of packet_handler_ it made, the ids a sweep
\* removed, those of them it removed for idleness alone, and (for a sweep)
\* the disconnect datagram handled before it and the session a ping or data
\* packet was handled for before it; count is the number of sessions before
\* the call
NoOp == [op |-> "none", addr |-> "", port |-> 0, data |-> <<>>,
         id |-> nullptr, session |-> nullptr, count |-> 0, ret |-> TRUE,
         out |-> <<>>, fwd |-> <<>>, swept |-> {}, idle |-> {},
         prev |-> NoCall, keepalive |-> nullptr, outcome |-> ""]

\* udp_server.hpp: the value of socket_ when no socket is open
INVALID_SOCKET_VALUE == -1

\* UDPServer as constructed: not running, no socket, no network thread
Constructed ==
    /\ running_ = FALSE
    /\ socket_ = INVALID_SOCKET_VALUE
    /\ network_thread_ = "none"
    /\ caller = "idle"
    /\ late = 0
    /\ responses = 0

\* UdpServer as constructed (udp_server.hpp: running_{false}, no socket, no
\* thread); io_context_ is the state of the boost::asio::io_context: the
\* asynchronous receives outstanding on it and whether it is stopped.  caller
\* is where the thread that calls start and stop is; received, completion
\* and last are history: the receives completed, how the last one completed,
\* and the last call that returned to the caller
UdpServer ==
    [running_ |-> FALSE, socket_ |-> FALSE, io_thread_ |-> "none",
     io_context_ |-> [outstanding |-> 0, stopped |-> FALSE],
     packet_handler_ |-> FALSE, caller |-> "idle", received |-> 0,
     completion |-> "", last |-> ""]

\* no SOEPacket is being built
NoBuilt == [opcode |-> -1, sequence |-> -1]

NoPacket ==
    /\ data_ = <<>>
    /\ built = NoBuilt
    /\ read_position_ = 0
    /\ wrote = <<>>
    /\ got = <<>>

\* the handler with no session and next_session_id_ = counter
InitWith(counter) ==
    /\ sessions_ = EmptyMap
    /\ endpoint_to_session_ = EmptyMap
    /\ next_session_id_ = counter
    /\ packet_handler_ = FALSE
    /\ faulted = FALSE
    /\ now = 0
    /\ issued = <<>>
    /\ lastOp = NoOp
    /\ Constructed
    /\ asio = UdpServer
    /\ NoPacket

\* BasicSOEHandler as constructed
Init == InitWith(FreshCounter)

\* BasicSOEHandler after 2^32 - 2 sessions have come and gone
InitAged == InitWith(AgedCounter)

\* handler.CreateSession(addr, port)
DoCreateSession(addr, port, ub) ==
    /\ ~faulted
    /\ Len(issued) < MaxIssued
    /\ LET h1 == CreateSession(H, addr, port, now, ub)
       IN  /\ Commit(h1)
           /\ issued' = IssuedAfter(h1)
           /\ lastOp' = [NoOp EXCEPT !.op = "CreateSession",
                                     !.addr = addr, !.port = port,
                                     !.session = GetSessionByEndpoint(H, addr, port),
                                     !.count = Cardinality(DOMAIN sessions_)]
    /\ now' = now
    /\ UNCHANGED <<server, header, asio>>

\* handler.DestroySession(id)
DoDestroySession(id) ==
    /\ ~faulted
    /\ Commit(DestroySession(H, id))
    /\ lastOp' = [NoOp EXCEPT !.op = "DestroySession", !.id = id,
                              !.count = Cardinality(DOMAIN sessions_)]
    /\ UNCHANGED <<now, issued, server, header, asio>>

\* handler.ProcessIncomingPacket(data, addr, port)
DoProcessIncomingPacket(data, addr, port, ub) ==
    /\ ~faulted
    /\ (Len(data) >= 2 /\ GetOpcode(data) = SOE_SESSION_REQUEST)
           => Len(issued) < MaxIssued
    /\ LET p == ProcessIncomingPacket(H, data, addr, port, now, ub)
       IN  /\ Commit(p.r.h)
           /\ issued' = IssuedAfter(p.r.h)
           /\ lastOp' = [NoOp EXCEPT !.op = "ProcessIncomingPacket",
                                     !.addr = addr, !.port = port, !.data = data,
                                     !.session = GetSessionByEndpoint(H, addr, port),
                                     !.count = Cardinality(DOMAIN sessions_),
                                     !.ret = p.ret,
                                     !.out = p.r.out, !.fwd = p.r.fwd]
    /\ now' = now
    /\ UNCHANGED <<server, header, asio>>

\* handler.Update()
DoUpdate ==
    /\ ~faulted
    /\ Commit(Update(H, now))
    /\ lastOp' = [NoOp EXCEPT !.op = "Update",
                              !.count = Cardinality(DOMAIN sessions_),
                              !.swept = TimedOut(H, now),
                              !.idle = {id \in TimedOut(H, now) :
                                  sessions_[id].state # "Disconnecting"},
                              !.prev = IF lastOp.op = "ProcessIncomingPacket"
                                          /\ lastOp.data = <<SOE_DISCONNECT, 0>>
                                       THEN Summary(lastOp) ELSE NoCall,
                              !.keepalive =
                                  IF /\ lastOp.op = "ProcessIncomingPacket"
                                     /\ Len(lastOp.data) >= 2
                                     /\ GetOpcode(lastOp.data) \in
                                            {SOE_PING, SOE_DATA_CHANNEL_A,
                                             SOE_DATA_CHANNEL_B,
                                             SOE_DATA_CHANNEL_C,
                                             SOE_DATA_CHANNEL_D}
                                  THEN lastOp.session ELSE nullptr]
    /\ UNCHANGED <<now, issued, server, header, asio>>

\* steady_clock advances between two calls
Tick ==
    /\ ~faulted
    /\ now < MaxTime * TickMinutes
    /\ now' = now + TickMinutes
    /\ UNCHANGED <<sessions_, endpoint_to_session_, next_session_id_,
                   packet_handler_, faulted, issued, lastOp, server, header, asio>>

\* the ids DestroySession is called with: those handed out, and id 0
DestroyArgs == {issued[i] : i \in 1..Len(issued)} \cup {U32(0, 0)}

Next ==
    \/ \E addr \in Addrs, port \in Ports, ub \in UseAfterMove :
           DoCreateSession(addr, port, ub)
    \/ \E id \in DestroyArgs : DoDestroySession(id)
    \/ \E data \in Datagrams, addr \in Addrs, port \in Ports :
           \E ub \in UseAfterMoveIn(data) :
               DoProcessIncomingPacket(data, addr, port, ub)
    \/ DoUpdate
    \/ Tick

\* a BasicSOEHandler on its own, as the tests construct it (no packet
\* handler registered), called in any order
Spec == Init /\ [][Next]_vars

\* the same handler late in its life, when the id counter is about to wrap
SpecAged == InitAged /\ [][Next]_vars

----------------------------------------------------------------------------
(* Properties *)

\* the session the endpoint resolves to now
SessionAt(addr, port) == GetSessionByEndpoint(H, addr, port)

\* the last call was ProcessIncomingPacket with a datagram of this opcode
Processed(opcode) ==
    /\ lastOp.op = "ProcessIncomingPacket"
    /\ Len(lastOp.data) >= 2
    /\ GetOpcode(lastOp.data) = opcode

\* the endpoint keys that map to the session id
KeysOf(id) ==
    {k \in DOMAIN endpoint_to_session_ : endpoint_to_session_[k] = id}

(* C1.  Index consistency: whenever a call has returned, every id in       *)
(* sessions_ has exactly one key of endpoint_to_session_ mapping to it,    *)
(* and every key maps to an id that is in sessions_.  The code violates    *)
(* it: CreateSession for an endpoint that has a session inserts a second   *)
(* session and overwrites the endpoint's key.                              *)
C1_IndexConsistency ==
    ~faulted =>
        /\ \A id \in DOMAIN sessions_ : Cardinality(KeysOf(id)) = 1
        /\ \A k \in DOMAIN endpoint_to_session_ :
               endpoint_to_session_[k] \in DOMAIN sessions_

\* the last call asked for a session: CreateSession, or a session request
AskedForSession ==
    lastOp.op = "CreateSession" \/ Processed(SOE_SESSION_REQUEST)

(* C2.  Re-creating a session for an endpoint that has one (CreateSession, *)
(* or a session request datagram) reuses it: the number of sessions is     *)
(* what it was and the endpoint resolves to the same session as before.    *)
(* The code violates it: CreateSession never looks the endpoint up.        *)
C2_RecreateReuses ==
    (AskedForSession /\ lastOp.session # nullptr /\ ~faulted) =>
        /\ Cardinality(DOMAIN sessions_) = lastOp.count
        /\ SessionAt(lastOp.addr, lastOp.port) = lastOp.session

(* C3.  Session ids are handed out in strictly increasing order, so no id  *)
(* is handed out twice and the counter never wraps.  The code violates it: *)
(* next_session_id_++ on a uint32_t goes from 0xFFFFFFFF to 0.             *)
C3_IdsStrictlyIncreasing ==
    \A i, j \in 1..Len(issued) : i < j => Lt32(issued[i], issued[j])

(* C4.  A session request from an endpoint that has no session creates     *)
(* exactly one session, Connected when ProcessIncomingPacket returns, and  *)
(* the endpoint resolves to it.  The code violates it where the read       *)
(* through the moved-from pointer in CreateSession traps.                  *)
C4_HandshakeCreatesConnected ==
    (Processed(SOE_SESSION_REQUEST) /\ lastOp.session = nullptr) =>
        /\ ~faulted
        /\ lastOp.ret
        /\ Cardinality(DOMAIN sessions_) = lastOp.count + 1
        /\ SessionAt(lastOp.addr, lastOp.port) # nullptr
        /\ sessions_[SessionAt(lastOp.addr, lastOp.port)].state = "Connected"

\* the connection id a session request carries: bytes 6-9
RequestConnectionId(data) == SubSeq(data, 7, 10)

\* the connection id in a session response: the four bytes after the opcode
ResponseConnectionId(data) == SubSeq(data, 3, 6)

(* C5.  Every session request that is processed has a session response    *)
(* sent to the endpoint it came from, carrying the request's connection    *)
(* id.  The code violates it: HandleSessionRequest sends nothing.          *)
C5_HandshakeResponds ==
    (Processed(SOE_SESSION_REQUEST) /\ ~faulted) =>
        \E i \in 1..Len(lastOp.out) :
            /\ lastOp.out[i].addr = lastOp.addr
            /\ lastOp.out[i].port = lastOp.port
            /\ GetOpcode(lastOp.out[i].data) = SOE_SESSION_RESPONSE
            /\ ResponseConnectionId(lastOp.out[i].data)
                   = RequestConnectionId(lastOp.data)

(* C6.  After CreateSession(addr, port) the endpoint resolves to a session *)
(* that is Connecting, records addr and port, and is the session GetSession*)
(* returns for its id.  The code violates it where the read through the    *)
(* moved-from pointer traps.                                               *)
C6_CreateSessionRegisters ==
    lastOp.op = "CreateSession" =>
        /\ ~faulted
        /\ SessionAt(lastOp.addr, lastOp.port) # nullptr
        /\ LET s == sessions_[SessionAt(lastOp.addr, lastOp.port)]
           IN  /\ s.state = "Connecting"
               /\ s.remote_address = lastOp.addr
               /\ s.remote_port = lastOp.port
               /\ GetSession(H, s.session_id)
                      = SessionAt(lastOp.addr, lastOp.port)

(* C7.  A session's state never moves backward: in every step, a session   *)
(* that is there before and after has a state at least as late in          *)
(* Connecting, Connected, Disconnecting as it had.                         *)
C7_StateNeverBackward ==
    [][\A id \in DOMAIN sessions_ \cap DOMAIN sessions_' :
           StateRank(sessions_'[id].state) >= StateRank(sessions_[id].state)]_vars

\* a session request has arrived from an endpoint whose session was
\* Disconnecting, and that session is still Disconnecting
C7_Witness ==
    /\ Processed(SOE_SESSION_REQUEST)
    /\ ~faulted
    /\ lastOp.session \in DOMAIN sessions_
    /\ sessions_[lastOp.session].state = "Disconnecting"

\* after a disconnect datagram for a session, until the next call: the
\* session is Disconnecting, none was removed, and both lookups return it
C8_AfterDisconnect ==
    (Processed(SOE_DISCONNECT) /\ lastOp.session # nullptr) =>
        /\ GetSession(H, lastOp.session) = lastOp.session
        /\ SessionAt(lastOp.addr, lastOp.port) = lastOp.session
        /\ sessions_[lastOp.session].state = "Disconnecting"
        /\ Cardinality(DOMAIN sessions_) = lastOp.count

\* a step that is neither a sweep nor a DestroySession call keeps every
\* Disconnecting session, Disconnecting
C8_RemovalDeferred ==
    (~DoUpdate /\ ~(\E id \in DestroyArgs : DoDestroySession(id))) =>
        \A id \in DOMAIN sessions_ :
            sessions_[id].state = "Disconnecting" =>
                /\ id \in DOMAIN sessions_'
                /\ sessions_'[id].state = "Disconnecting"

C9_DisconnectThenSweep ==
    (lastOp.op = "Update" /\ lastOp.prev.session # nullptr) =>
        /\ GetSession(H, lastOp.prev.session) = nullptr
        /\ SessionAt(lastOp.prev.addr, lastOp.prev.port) = nullptr

\* an Update has followed a disconnect datagram that was handled for a
\* session, with another session left
C9_Witness ==
    /\ lastOp.op = "Update"
    /\ lastOp.prev.session # nullptr
    /\ lastOp.prev.session \in lastOp.swept
    /\ DOMAIN sessions_ # {}

(* C10.  Update removes every session whose last_activity is more than the *)
(* idle timeout ago and every Disconnecting session, and keeps every other *)
(* session with all its fields as they were.                               *)
C10_SweepRemovesExactly ==
    [][DoUpdate =>
          \A id \in DOMAIN sessions_ :
              IF \/ sessions_[id].state = "Disconnecting"
                 \/ now - sessions_[id].last_activity > IdleTimeoutMinutes
              THEN id \notin DOMAIN sessions_'
              ELSE /\ id \in DOMAIN sessions_'
                   /\ sessions_'[id] = sessions_[id]]_vars

\* an Update has removed a session for idleness alone and kept another
C10_Witness ==
    /\ lastOp.op = "Update"
    /\ lastOp.idle # {}
    /\ DOMAIN sessions_ # {}

\* the handler object of the next state
HNext == [sessions_            |-> sessions_',
          endpoint_to_session_ |-> endpoint_to_session_',
          next_session_id_     |-> next_session_id_',
          packet_handler_      |-> packet_handler_',
          faulted              |-> faulted']

\* the session is returned by GetSession for its id and by
\* GetSessionByEndpoint for its own endpoint
Reachable(h, id) ==
    /\ GetSession(h, id) = id
    /\ GetSessionByEndpoint(h, h.sessions_[id].remote_address,
                            h.sessions_[id].remote_port) = id

(* C11.  Destroying a session leaves every other session untouched: after  *)
(* DestroySession(i), called directly or by the sweep, every other session *)
(* that both lookups returned is still returned by both, and               *)
(* DestroySession of an absent id changes nothing.  The code violates it:  *)
(* DestroySession erases the endpoint key of the session it destroys, also *)
(* when that key maps to another session of the same endpoint.             *)
C11_DestroyLeavesOthers ==
    [][/\ \A i \in DestroyArgs :
              DoDestroySession(i) =>
                  /\ \A j \in DOMAIN sessions_ \ {i} :
                         Reachable(H, j) => Reachable(HNext, j)
                  /\ i \notin DOMAIN sessions_ =>
                         UNCHANGED <<sessions_, endpoint_to_session_,
                                     next_session_id_>>
       /\ DoUpdate =>
              \A j \in DOMAIN sessions_ \ TimedOut(H, now) :
                  Reachable(H, j) => Reachable(HNext, j)]_vars

----------------------------------------------------------------------------
(* Packet integrity: the CRC-16 of soe_protocol.cpp *)

\* bit i of x
Bit(x, i) == (x \div (2^i)) % 2

\* a ^ b on uint16_t
Xor(a, b) ==
    LET d(i) == ((Bit(a, i) + Bit(b, i)) % 2) * (2^i)
    IN  d(0) + d(1) + d(2) + d(3) + d(4) + d(5) + d(6) + d(7) + d(8)
          + d(9) + d(10) + d(11) + d(12) + d(13) + d(14) + d(15)

(* The loops of CalculateChecksum run statement after statement: each    *)
(* step below takes the value c of the crc so far from a one-element set,  *)
(* so that it is computed before the next step starts.                     *)

\* the inner loop of CalculateChecksum: n times, shift right by one bit and
\* xor the polynomial 0x8408 in when the bit shifted out is 1
RECURSIVE ShiftOut(_, _)
ShiftOut(crc, n) ==
    IF n = 0 THEN crc
    ELSE CHOOSE r \in {ShiftOut(c, n - 1) :
                          c \in {IF crc % 2 = 1 THEN Xor(crc \div 2, 33800)
                                 ELSE crc \div 2}} : TRUE

\* SOEProtocolHandler::CalculateChecksum over the first length bytes of data
RECURSIVE CalculateChecksum(_, _, _)
CalculateChecksum(data, length, seed) ==
    IF length = 0 THEN seed % U16Mod
    ELSE CHOOSE r \in {ShiftOut(Xor(c, data[length]), 8) :
                          c \in {CalculateChecksum(data, length - 1, seed)}} : TRUE

\* SOEPacket::CalculateCRC
CalculateCRC(data) == CalculateChecksum(data, Len(data), SOE_CRC_SEED)

\* SOEPacket::AppendCRC
AppendCRC(data) == WriteUInt16(data, CalculateCRC(data))

\* SOEPacket::ValidateCRC: the last two bytes against the CRC of the rest
ValidateCRC(data) ==
    IF Len(data) < 2 THEN FALSE
    ELSE data[Len(data) - 1] + data[Len(data)] * 256
             = CalculateChecksum(data, Len(data) - 2, SOE_CRC_SEED)

\* SOEProtocolHandler::ValidatePacket
ValidatePacket(data) ==
    IF Len(data) < 4 THEN FALSE ELSE ValidateCRC(data)

----------------------------------------------------------------------------
(* The handler with a packet handler registered, as LoginServer sets it up *)

\* BasicSOEHandler::SetPacketHandler
SetPacketHandler(h) == [h EXCEPT !.packet_handler_ = TRUE]

\* a data packet of channel A: sequence 1, one byte of payload, its CRC
DataPacketA == AppendCRC(<<SOE_DATA_CHANNEL_A, 0, 1, 0, 65>>)

\* the same on channel D
DataPacketD == AppendCRC(<<SOE_DATA_CHANNEL_D, 0, 1, 0, 65>>)

\* the channel A packet with the CRC placeholder 0x00 0x00 in place of its CRC
DataPacketBadCRC == <<SOE_DATA_CHANNEL_A, 0, 1, 0, 65, 0, 0>>

\* an ack of channel A for sequence 1
AckPacket == <<SOE_ACK_A, 0, 1, 0>>

\* the datagrams of well-formed clients, and the data packet of one that
\* does not compute the CRC
ServerDatagrams ==
    { SessionRequestDatagram,
      <<SOE_DISCONNECT, 0>>,
      <<SOE_PING, 0>>,
      DataPacketA, DataPacketD, DataPacketBadCRC,
      <<SOE_ACK_A, 0, 0, 0>> }

\* the client that sends malformed datagrams
Offender == {"10.0.0.1"}

\* the datagrams of a client that sends malformed packets among good ones:
\* opcodes the dispatcher has no case for, datagrams of less than 2 bytes,
\* and sequenced packets cut before the end of the sequence number
MalformedDatagrams ==
    { SessionRequestDatagram,
      <<SOE_DISCONNECT, 0>>,
      DataPacketA,
      AckPacket,
      <<SOE_NET_STATUS_REQUEST, 0>>,
      <<255, 255>>,
      <<>>,
      <<SOE_DISCONNECT>>,
      <<SOE_DATA_CHANNEL_A, 0>>,
      <<SOE_ACK_A, 0, 1>> }

\* the handler after LoginServer::LoginServer: constructed, SetPacketHandler
\* called
InitServer ==
    LET h == SetPacketHandler([sessions_            |-> EmptyMap,
                               endpoint_to_session_ |-> EmptyMap,
                               next_session_id_     |-> FreshCounter,
                               packet_handler_      |-> FALSE,
                               faulted              |-> FALSE])
    IN  /\ sessions_ = h.sessions_
        /\ endpoint_to_session_ = h.endpoint_to_session_
        /\ next_session_id_ = h.next_session_id_
        /\ packet_handler_ = h.packet_handler_
        /\ faulted = h.faulted
        /\ now = 0
        /\ issued = <<>>
        /\ lastOp = NoOp
        /\ Constructed
        /\ asio = UdpServer
        /\ NoPacket

NextServer ==
    \/ \E data \in ServerDatagrams, addr \in Addrs, port \in Ports :
           \E ub \in UseAfterMoveIn(data) :
               DoProcessIncomingPacket(data, addr, port, ub)
    \/ DoUpdate
    \/ Tick

NextMalformed ==
    \/ \E data \in MalformedDatagrams, addr \in Offender, port \in Ports :
           \E ub \in UseAfterMoveIn(data) :
               DoProcessIncomingPacket(data, addr, port, ub)
    \/ DoUpdate
    \/ Tick

\* the handler of a server, receiving the datagrams of its clients; sessions
\* are created by session requests only
SpecServer == InitServer /\ [][NextServer]_vars

\* the same handler, receiving malformed datagrams among good ones from one
\* client
SpecMalformed == InitServer /\ [][NextMalformed]_vars

----------------------------------------------------------------------------
(* Properties of the dispatcher *)

\* this step is ProcessIncomingPacket(data, addr, port), the call that
\* lastOp records after it
Handled(data, addr, port) ==
    /\ lastOp'.op = "ProcessIncomingPacket"
    /\ lastOp'.data = data /\ lastOp'.addr = addr /\ lastOp'.port = port
    /\ \E ub \in UseAfterMoveIn(data) : DoProcessIncomingPacket(data, addr, port, ub)

\* the datagram and the endpoint of the call this step makes
Arrived == [data |-> lastOp'.data, addr |-> lastOp'.addr, port |-> lastOp'.port]

\* the opcodes ProcessIncomingPacket has a case for
DataChannels == {SOE_DATA_CHANNEL_A, SOE_DATA_CHANNEL_B,
                 SOE_DATA_CHANNEL_C, SOE_DATA_CHANNEL_D}
AckChannels == {SOE_ACK_A, SOE_ACK_B, SOE_ACK_C, SOE_ACK_D}
Recognized ==
    {SOE_SESSION_REQUEST, SOE_PING, SOE_DISCONNECT} \cup DataChannels
        \cup AckChannels

\* the datagram carries an opcode, and it is one of the set
HasOpcode(data, opcodes) == Len(data) >= 2 /\ GetOpcode(data) \in opcodes

\* the datagram carries an opcode, and it is none ProcessIncomingPacket
\* has a case for
Unrecognized(data) == Len(data) >= 2 /\ GetOpcode(data) \notin Recognized

\* the registry is what it was: no session created, removed or changed
RegistryUnchanged == UNCHANGED <<sessions_, endpoint_to_session_>>

(* C12.  A datagram with an unrecognized opcode from an endpoint that has  *)
(* a session leaves the session's state, server_sequence, client_sequence, *)
(* last_acknowledged and last_activity as they were, creates no session    *)
(* and removes none.                                                       *)
C12_UnknownOpcodeIgnored ==
    [][LET data == Arrived.data  addr == Arrived.addr  port == Arrived.port IN
           (/\ Unrecognized(data)
            /\ SessionAt(addr, port) # nullptr
            /\ Handled(data, addr, port)) => RegistryUnchanged]_vars

\* a datagram with an unrecognized opcode was handled for a session that
\* had received data, some time after the session's last activity
C12_Witness ==
    /\ lastOp.op = "ProcessIncomingPacket"
    /\ Unrecognized(lastOp.data)
    /\ lastOp.session \in DOMAIN sessions_
    /\ sessions_[lastOp.session].client_sequence # 0
    /\ now > sessions_[lastOp.session].last_activity

\* the endpoint has no session: its key is not in endpoint_to_session_, or
\* maps to an id that is not in sessions_
NoSessionOf(addr, port) ==
    LET key == MakeEndpointKey(addr, port)
    IN  \/ key \notin DOMAIN endpoint_to_session_
        \/ endpoint_to_session_[key] \notin DOMAIN sessions_

(* C13.  Orphan packets are dropped: a ping, data-channel, ack-channel or  *)
(* disconnect datagram from an endpoint that has no session creates no     *)
(* session, changes no session and does not invoke the packet handler.     *)
C13_OrphanDropped ==
    [][LET data == Arrived.data  addr == Arrived.addr  port == Arrived.port IN
           (/\ HasOpcode(data, {SOE_PING, SOE_DISCONNECT} \cup DataChannels
                                   \cup AckChannels)
            /\ NoSessionOf(addr, port)
            /\ Handled(data, addr, port)) =>
               /\ RegistryUnchanged
               /\ lastOp'.fwd = <<>>]_vars

\* a data packet has arrived from an endpoint without a session while
\* another endpoint has one, with the packet handler registered
C13_Witness ==
    /\ lastOp.op = "ProcessIncomingPacket"
    /\ HasOpcode(lastOp.data, DataChannels)
    /\ NoSessionOf(lastOp.addr, lastOp.port)
    /\ DOMAIN sessions_ # {}
    /\ packet_handler_

(* C14.  A datagram of one byte or none from an endpoint with a session is *)
(* rejected by ProcessIncomingPacket (it returns false); the number of     *)
(* sessions and every field of every session are what they were.           *)
C14_ShortDatagramRejected ==
    [][LET data == Arrived.data  addr == Arrived.addr  port == Arrived.port IN
           (/\ Len(data) < 2
            /\ SessionAt(addr, port) # nullptr
            /\ Handled(data, addr, port)) =>
               /\ RegistryUnchanged
               /\ ~lastOp'.ret]_vars

\* a datagram of one byte was rejected for an endpoint whose session is
\* Connected, some time after the session's last activity
C14_Witness ==
    /\ lastOp.op = "ProcessIncomingPacket"
    /\ Len(lastOp.data) = 1
    /\ ~lastOp.ret
    /\ lastOp.session \in DOMAIN sessions_
    /\ sessions_[lastOp.session].state = "Connected"
    /\ now > sessions_[lastOp.session].last_activity

(* C15.  A data-channel or ack-channel datagram of less than 4 bytes from  *)
(* an endpoint with a session is rejected before any field is read:        *)
(* client_sequence, last_acknowledged and last_activity of the session are *)
(* what they were and the packet handler is not invoked.  The code         *)
(* violates it: only datagrams of less than 2 bytes are rejected, and      *)
(* GetSequence yields 0 for the missing sequence number.                   *)
C15_ShortSequencedRejected ==
    [][LET data == Arrived.data  addr == Arrived.addr  port == Arrived.port IN
           (/\ HasOpcode(data, DataChannels \cup AckChannels)
            /\ Len(data) < 4
            /\ SessionAt(addr, port) # nullptr
            /\ Handled(data, addr, port)) =>
               LET id == SessionAt(addr, port)
               IN  /\ id \in DOMAIN sessions_'
                   /\ sessions_'[id].client_sequence = sessions_[id].client_sequence
                   /\ sessions_'[id].last_acknowledged
                          = sessions_[id].last_acknowledged
                   /\ sessions_'[id].last_activity = sessions_[id].last_activity
                   /\ lastOp'.fwd = <<>>]_vars

(* C16.  A data-channel datagram whose trailing CRC is not the CRC of the  *)
(* bytes before it is dropped: it changes no field of any session and is   *)
(* not handed to the packet handler.  The code violates it: no CRC is      *)
(* validated on the way from ProcessIncomingPacket to the packet handler.  *)
C16_BadCrcDropped ==
    [][LET data == Arrived.data  addr == Arrived.addr  port == Arrived.port IN
           (/\ HasOpcode(data, DataChannels)
            /\ ~ValidateCRC(data)
            /\ SessionAt(addr, port) # nullptr
            /\ Handled(data, addr, port)) =>
               /\ RegistryUnchanged
               /\ lastOp'.fwd = <<>>]_vars

(* C17.  A ping from an endpoint with a session is answered: exactly one   *)
(* ping packet is sent back to the endpoint for each ping processed.  The  *)
(* code violates it: HandlePing sends nothing.                             *)
C17_PingAnswered ==
    (Processed(SOE_PING) /\ lastOp.session # nullptr) =>
        Cardinality({i \in 1..Len(lastOp.out) :
                        /\ lastOp.out[i].addr = lastOp.addr
                        /\ lastOp.out[i].port = lastOp.port
                        /\ GetOpcode(lastOp.out[i].data) = SOE_PING}) = 1

(* C18.  Keepalive: handling a ping or a data-channel datagram for a       *)
(* session sets the session's last_activity to the current time;           *)
(* last_activity never goes back; and a sweep keeps every session that is  *)
(* not Disconnecting and whose last_activity is no longer ago than the     *)
(* idle timeout.  So a session that is not Disconnecting and gets such a   *)
(* packet at intervals no longer than the idle timeout is removed by no    *)
(* sweep.                                                                  *)
C18_Keepalive ==
    [][/\ LET data == Arrived.data  addr == Arrived.addr  port == Arrived.port IN
              (/\ HasOpcode(data, {SOE_PING} \cup DataChannels)
               /\ SessionAt(addr, port) # nullptr
               /\ Handled(data, addr, port)) =>
                  /\ SessionAt(addr, port) \in DOMAIN sessions_'
                  /\ sessions_'[SessionAt(addr, port)].last_activity = now
       /\ \A id \in DOMAIN sessions_ \cap DOMAIN sessions_' :
              sessions_'[id].last_activity >= sessions_[id].last_activity
       /\ DoUpdate =>
              \A id \in DOMAIN sessions_ :
                  (/\ sessions_[id].state # "Disconnecting"
                   /\ now - sessions_[id].last_activity <= IdleTimeoutMinutes)
                      => id \in DOMAIN sessions_']_vars

\* a sweep has kept the session a ping or data packet was handled for one
\* idle timeout before, and has removed an idle session
C18_Witness ==
    /\ lastOp.op = "Update"
    /\ lastOp.keepalive \in DOMAIN sessions_
    /\ now - sessions_[lastOp.keepalive].last_activity = IdleTimeoutMinutes
    /\ lastOp.idle # {}

\* the application payload of a data packet: what follows the opcode and
\* the sequence number
Payload(data) == SubSeq(data, 5, Len(data))

(* C19.  For each data-channel datagram (channels A to D) from an endpoint *)
(* with a session the registered packet handler is invoked exactly once,   *)
(* with that session and with the datagram's payload, the opcode and the   *)
(* sequence number stripped.  The code violates it: the handler is given   *)
(* the whole packet.                                                       *)
C19_HandlerGetsPayload ==
    (/\ lastOp.op = "ProcessIncomingPacket"
     /\ HasOpcode(lastOp.data, DataChannels)
     /\ lastOp.session # nullptr
     /\ packet_handler_) =>
        /\ Len(lastOp.fwd) = 1
        /\ lastOp.fwd[1].session = lastOp.session
        /\ lastOp.fwd[1].packet = Payload(lastOp.data)

(* C20.  Data is exchanged in the Connected state only: the packet handler *)
(* is not invoked for a data-channel datagram whose session is Connecting  *)
(* or Disconnecting.  The code violates it: HandleDataPacket does not look *)
(* at the session's state.                                                 *)
C20_DataOnlyWhenConnected ==
    [][LET data == Arrived.data  addr == Arrived.addr  port == Arrived.port IN
           (/\ HasOpcode(data, DataChannels)
            /\ SessionAt(addr, port) # nullptr
            /\ sessions_[SessionAt(addr, port)].state
                   \in {"Connecting", "Disconnecting"}
            /\ Handled(data, addr, port)) => lastOp'.fwd = <<>>]_vars

----------------------------------------------------------------------------
(* Sequence state of the channels *)

\* ClientSession::client_sequence as data channel `channel' reads it: the
\* session has one client_sequence, whatever the channel
client_sequence(h, session, channel) == h.sessions_[session].client_sequence

\* ClientSession::last_acknowledged as ack channel `channel' reads it: the
\* session has one last_acknowledged, whatever the channel
last_acknowledged(h, session, channel) == h.sessions_[session].last_acknowledged

(* C21.  The four channels have independent sequence state: a data packet  *)
(* on channel X leaves the client sequence of the three other data         *)
(* channels as it was, and an ack on channel X leaves the last             *)
(* acknowledged value of the three other ack channels as it was.  The code *)
(* violates it: a session has one client_sequence and one                  *)
(* last_acknowledged, which every channel overwrites.                      *)
C21_ChannelsIndependent ==
    [][LET data == Arrived.data  addr == Arrived.addr  port == Arrived.port
           session == SessionAt(addr, port) IN
           (/\ HasOpcode(data, DataChannels \cup AckChannels)
            /\ session # nullptr
            /\ Handled(data, addr, port)
            /\ session \in DOMAIN sessions_') =>
               /\ \A channel \in DataChannels \ {GetOpcode(data)} :
                      client_sequence(HNext, session, channel)
                          = client_sequence(H, session, channel)
               /\ \A channel \in AckChannels \ {GetOpcode(data)} :
                      last_acknowledged(HNext, session, channel)
                          = last_acknowledged(H, session, channel)]_vars

(* C22.  A net-status request from an endpoint with a session is handled   *)
(* as a recognized opcode: the call returns true, the session's            *)
(* last_activity is set to the current time, and a net-status response is  *)
(* sent back to the endpoint.  The code violates it: ProcessIncomingPacket *)
(* has no case for the opcode, which falls to the default one.             *)
C22_NetStatusAnswered ==
    (Processed(SOE_NET_STATUS_REQUEST) /\ lastOp.session # nullptr) =>
        /\ lastOp.ret
        /\ lastOp.session \in DOMAIN sessions_
        /\ sessions_[lastOp.session].last_activity = now
        /\ \E i \in 1..Len(lastOp.out) :
               /\ lastOp.out[i].addr = lastOp.addr
               /\ lastOp.out[i].port = lastOp.port
               /\ GetOpcode(lastOp.out[i].data) = SOE_NET_STATUS_RESPONSE

----------------------------------------------------------------------------
(* SOEPacket: building a header *)

\* std::vector::resize(n) when the vector is shorter than n: zero bytes are
\* appended
Resize(data, n) ==
    IF Len(data) < n THEN data \o [i \in 1..(n - Len(data)) |-> 0] ELSE data

\* SOEPacket::SetOpcode: bytes 0-1, low byte first
SetOpcode(data, opcode) ==
    [Resize(data, 2) EXCEPT ![1] = opcode % 256,
                            ![2] = (opcode \div 256) % 256]

\* faulty variant of SetSequence: high byte first
SetSequence_BigEndian(data, sequence) ==
    [Resize(data, 4) EXCEPT ![3] = (sequence \div 256) % 256,
                            ![4] = sequence % 256]

\* SOEPacket::SetSequence: bytes 2-3, low byte first
SetSequence(data, sequence) ==
    [Resize(data, 4) EXCEPT ![3] = sequence % 256,
                            ![4] = (sequence \div 256) % 256]

\* the bytes the 16-bit arguments are made of
HeaderBytes == {0, 1, SOE_DATA_CHANNEL_A, 128, 255}

\* the 16-bit values given as opcode and as sequence number
UInt16s == {lo + 256 * hi : lo \in HeaderBytes, hi \in HeaderBytes}

\* SOEPacket packet(opcode), beside a handler and a server just constructed
InitHeader ==
    /\ sessions_ = EmptyMap
    /\ endpoint_to_session_ = EmptyMap
    /\ next_session_id_ = FreshCounter
    /\ packet_handler_ = FALSE
    /\ faulted = FALSE
    /\ now = 0
    /\ issued = <<>>
    /\ lastOp = NoOp
    /\ Constructed
    /\ asio = UdpServer
    /\ \E opcode \in UInt16s :
           /\ data_ = SOEPacket(opcode)
           /\ built = [NoBuilt EXCEPT !.opcode = opcode]
    /\ read_position_ = 0
    /\ wrote = <<>>
    /\ got = <<>>

\* the handler and the server are left alone
HeaderOnly ==
    UNCHANGED <<sessions_, endpoint_to_session_, next_session_id_,
                packet_handler_, faulted, now, issued, lastOp, server, asio>>

\* packet.SetSequence(sequence)
DoSetSequence(sequence) ==
    /\ data_' = SetSequence(data_, sequence)
    /\ built' = [built EXCEPT !.sequence = sequence]
    /\ UNCHANGED <<read_position_, wrote, got>>
    /\ HeaderOnly

\* packet.SetOpcode(opcode)
DoSetOpcode(opcode) ==
    /\ data_' = SetOpcode(data_, opcode)
    /\ built' = [built EXCEPT !.opcode = opcode]
    /\ UNCHANGED <<read_position_, wrote, got>>
    /\ HeaderOnly

NextHeader ==
    \/ \E sequence \in UInt16s : DoSetSequence(sequence)
    \/ \E opcode \in UInt16s : DoSetOpcode(opcode)

\* a packet is constructed with an opcode, then its sequence number and its
\* opcode are set any number of times
SpecHeader == InitHeader /\ [][NextHeader]_vars

(* C30.  Header round trip: a packet built with SOEPacket(op) and then     *)
(* SetSequence(seq) returns GetOpcode() = op and GetSequence() = seq, with *)
(* op in bytes 0-1 and seq in bytes 2-3, low byte first; SetSequence       *)
(* leaves the opcode as it was.                                            *)
C30_HeaderRoundTrip ==
    /\ built.opcode # NoBuilt.opcode =>
           /\ GetOpcode(data_) = built.opcode
           /\ data_[1] = built.opcode % 256
           /\ data_[2] = built.opcode \div 256
    /\ built.sequence # NoBuilt.sequence =>
           /\ GetSequence(data_) = built.sequence
           /\ data_[3] = built.sequence % 256
           /\ data_[4] = built.sequence \div 256

\* SOE_DATA_CHANNEL_A was given as opcode, then 65535 as sequence number
C30_Witness ==
    /\ built.opcode = SOE_DATA_CHANNEL_A
    /\ built.sequence = U16Mod - 1
    /\ Len(data_) = 4

----------------------------------------------------------------------------
(* UDPServer: sending *)

\* what sendto can return: the number of bytes sent, or -1
SendTo == {"sent", "error"}

\* the return value of a send and the datagrams handed to the network
Sent(ret, out) == [ret |-> ret, out |-> out]

\* UDPServer::SendPacket
SendPacket(socket, data, addr, port, sendto) ==
    IF socket = INVALID_SOCKET_VALUE THEN Sent(FALSE, <<>>)
    ELSE IF sendto = "error" THEN Sent(FALSE, <<>>)
    ELSE Sent(TRUE, <<[addr |-> addr, port |-> port, data |-> data]>>)

\* faulty variant of SendPacketToSession: an id that is not found is sent
\* to the broadcast address
SendPacketToSession_Broadcast(h, socket, session_id, data, sendto) ==
    LET session == GetSession(h, session_id)
    IN  IF session = nullptr
        THEN SendPacket(socket, data, "255.255.255.255", 44453, sendto)
        ELSE SendPacket(socket, data, h.sessions_[session].remote_address,
                        h.sessions_[session].remote_port, sendto)

\* UDPServer::SendPacketToSession; soe_handler_ is the handler h, which
\* LoginServer sets before Start
SendPacketToSession(h, socket, session_id, data, sendto) ==
    LET session == GetSession(h, session_id)
    IN  IF session = nullptr THEN Sent(FALSE, <<>>)
        ELSE SendPacket(socket, data, h.sessions_[session].remote_address,
                        h.sessions_[session].remote_port, sendto)

----------------------------------------------------------------------------
(* LoginServer: the packet handler *)

LOGIN_CLIENT_ID == U32(16659, 7029)
LOGIN_CLUSTER_STATUS == U32(13366, 44726)
LOGIN_ENUM_CLUSTER == U32(49436, 25529)
LOGIN_CLUSTER_LIST == U32(14890, 31960)

\* SOEPacket::ReadUInt32 with read_position_ = position: four bytes, low byte
\* first; 0 when fewer are left
ReadUInt32(data, position) ==
    IF position + 3 >= Len(data) THEN U32(0, 0)
    ELSE U32(data[position + 3] + data[position + 4] * 256,
             data[position + 1] + data[position + 2] * 256)

\* SOEPacket::WriteData
WriteData(data, bytes) == data \o bytes

\* SOEPacket::WriteString: the length as uint16, then the characters
WriteString(data, value) == WriteData(WriteUInt16(data, Len(value)), value)

\* LoginServer::CreateLoginResponseOk; the string is "Login successful"
CreateLoginResponseOk ==
    WriteString(WriteUInt8(WriteUInt32(<<>>, U32(4660, 22136)), 1),
                <<76, 111, 103, 105, 110, 32, 115, 117, 99, 99, 101, 115,
                  115, 102, 117, 108>>)

\* LoginServer::CreateClusterListResponse with the galaxy as constructed:
\* id 1, "SWG:ANH Modern", 0 of 3000 players, online; the zone server is
\* "127.0.0.1", port 44463
CreateClusterListResponse ==
    LET w32(d, n)  == WriteUInt32(d, U32(0, n))
        list       == WriteUInt8(WriteUInt32(<<>>, LOGIN_CLUSTER_LIST), 1)
        galaxy     == WriteString(w32(list, 1),
                          <<83, 87, 71, 58, 65, 78, 72, 32, 77, 111, 100,
                            101, 114, 110>>)
        status     == w32(w32(w32(w32(galaxy, 0), 3000), 1), 0)
        zone       == WriteUInt16(WriteString(status,
                          <<49, 50, 55, 46, 48, 46, 48, 46, 49>>), 44463)
    IN  w32(w32(w32(zone, 1), 60), 0)

\* faulty variant of HandleLoginClientId: the sequence number is stamped
\* before it is incremented
HandleLoginClientId_PostIncrement(h, socket, session, packet, sendto) ==
    LET server_sequence == (h.sessions_[session].server_sequence + 1) % U16Mod
        h1 == [h EXCEPT !.sessions_[session].server_sequence = server_sequence]
        soe_response ==
            WriteData(SetSequence(SOEPacket(SOE_DATA_CHANNEL_A),
                                  h.sessions_[session].server_sequence),
                      CreateLoginResponseOk)
    IN  Result(h1,
               SendPacketToSession(h1, socket, h1.sessions_[session].session_id,
                                   soe_response, sendto).out,
               <<>>)

\* LoginServer::HandleLoginClientId: the response is wrapped in a channel A
\* packet stamped with ++session->server_sequence (a uint16_t) and sent to
\* the session
HandleLoginClientId(h, socket, session, packet, sendto) ==
    LET server_sequence == (h.sessions_[session].server_sequence + 1) % U16Mod
        h1 == [h EXCEPT !.sessions_[session].server_sequence = server_sequence]
        soe_response ==
            WriteData(SetSequence(SOEPacket(SOE_DATA_CHANNEL_A), server_sequence),
                      CreateLoginResponseOk)
    IN  Result(h1,
               SendPacketToSession(h1, socket, h1.sessions_[session].session_id,
                                   soe_response, sendto).out,
               <<>>)

\* LoginServer::HandleEnumCluster: as HandleLoginClientId, with the cluster
\* list
HandleEnumCluster(h, socket, session, packet, sendto) ==
    LET server_sequence == (h.sessions_[session].server_sequence + 1) % U16Mod
        h1 == [h EXCEPT !.sessions_[session].server_sequence = server_sequence]
        soe_response ==
            WriteData(SetSequence(SOEPacket(SOE_DATA_CHANNEL_A), server_sequence),
                      CreateClusterListResponse)
    IN  Result(h1,
               SendPacketToSession(h1, socket, h1.sessions_[session].session_id,
                                   soe_response, sendto).out,
               <<>>)

\* LoginServer::HandleClusterStatus: the request is logged
HandleClusterStatus(h, socket, session, packet, sendto) ==
    Result(h, <<>>, <<>>)

\* LoginServer::HandleGamePacket: the packet is the whole SOE packet, the
\* game opcode is read behind the SOE opcode and the sequence number
HandleGamePacket(h, socket, session, packet, sendto) ==
    IF Len(packet) < 8 THEN Result(h, <<>>, <<>>)
    ELSE LET game_opcode == ReadUInt32(packet, 4)
         IN  IF game_opcode = LOGIN_CLIENT_ID
             THEN HandleLoginClientId(h, socket, session, packet, sendto)
             ELSE IF game_opcode = LOGIN_ENUM_CLUSTER
             THEN HandleEnumCluster(h, socket, session, packet, sendto)
             ELSE IF game_opcode = LOGIN_CLUSTER_STATUS
             THEN HandleClusterStatus(h, socket, session, packet, sendto)
             ELSE Result(h, <<>>, <<>>)

\* UDPServer::HandleClientPacket with LoginServer's handler registered: the
\* datagram goes through ProcessIncomingPacket, and HandleDataPacket calls
\* HandleGamePacket as its last statement
HandleClientPacket(h, socket, data, addr, port, t, ub, sendto) ==
    LET p == ProcessIncomingPacket(h, data, addr, port, t, ub)
        g == IF p.r.fwd = <<>> THEN Result(p.r.h, <<>>, <<>>)
             ELSE HandleGamePacket(p.r.h, socket, p.r.fwd[1].session,
                                   p.r.fwd[1].packet, sendto)
    IN  [r |-> Result(g.h, p.r.out \o g.out, p.r.fwd), ret |-> p.ret]

----------------------------------------------------------------------------
(* UDPServer: the socket and the network thread *)

\* the handler object, as the steps of the server leave it alone
handler == <<sessions_, endpoint_to_session_, next_session_id_,
             packet_handler_, faulted>>

\* how InitializeSocket can go: every call succeeds, or socket(), the
\* switch to non-blocking mode or bind() fails
SocketOutcomes == {"ok", "socket", "nonblocking", "bind"}

\* UDPServer::CleanupSocket: the socket is closed
CleanupSocket(socket) == INVALID_SOCKET_VALUE

\* faulty variant of InitializeSocket: the socket stays open when bind fails
InitializeSocket_Leak(outcome) ==
    IF outcome = "ok" THEN [ret |-> TRUE, socket_ |-> 3]
    ELSE IF outcome = "bind" THEN [ret |-> FALSE, socket_ |-> 3]
    ELSE [ret |-> FALSE, socket_ |-> INVALID_SOCKET_VALUE]

\* UDPServer::InitializeSocket: its return value and socket_ after it; 3 is
\* the descriptor socket() returns
InitializeSocket(outcome) ==
    IF outcome = "socket"
    THEN [ret |-> FALSE, socket_ |-> INVALID_SOCKET_VALUE]
    ELSE IF outcome \in {"nonblocking", "bind"}
    THEN [ret |-> FALSE, socket_ |-> CleanupSocket(3)]
    ELSE [ret |-> TRUE, socket_ |-> 3]

\* UDPServer::Start, called by the thread that owns the server.  Assigning
\* to a network_thread_ that is still joinable is std::terminate.
Start(outcome) ==
    /\ ~faulted
    /\ caller = "idle"
    /\ IF running_
       THEN /\ lastOp' = [NoOp EXCEPT !.op = "Start", !.ret = FALSE,
                                      !.outcome = "running"]
            /\ UNCHANGED <<handler, server>>
       ELSE LET s == InitializeSocket(outcome)
            IN  /\ socket_' = s.socket_
                /\ running_' = s.ret
                /\ network_thread_' = IF s.ret THEN "loop" ELSE network_thread_
                /\ faulted' = (s.ret /\ network_thread_ # "none")
                /\ late' = IF s.ret THEN 0 ELSE late
                /\ lastOp' = [NoOp EXCEPT !.op = "Start", !.ret = s.ret,
                                          !.outcome = outcome]
                /\ UNCHANGED <<sessions_, endpoint_to_session_,
                               next_session_id_, packet_handler_, caller,
                               responses>>
    /\ UNCHANGED <<now, issued, header, asio>>

\* faulty variant of StopBegin: Stop removes the sessions itself
StopBegin_Clear ==
    /\ ~faulted
    /\ caller = "idle"
    /\ running_
    /\ running_' = FALSE
    /\ caller' = "Stop"
    /\ Commit(DestroyAll(H, DOMAIN sessions_))
    /\ UNCHANGED <<socket_, network_thread_, late, responses, lastOp, now,
                   issued, header, asio>>

\* UDPServer::Stop up to the join: running_ is cleared; a server that is
\* not running returns at once
StopBegin ==
    /\ ~faulted
    /\ caller = "idle"
    /\ IF running_
       THEN /\ running_' = FALSE
            /\ caller' = "Stop"
            /\ UNCHANGED <<socket_, network_thread_, late, responses, lastOp>>
       ELSE /\ lastOp' = [NoOp EXCEPT !.op = "Stop", !.outcome = "idle"]
            /\ UNCHANGED server
    /\ UNCHANGED <<handler, now, issued, header, asio>>

\* faulty variant of StopJoin: the socket is closed and Stop returns
\* without waiting for the network thread
StopJoin_NoJoin ==
    /\ ~faulted
    /\ caller = "Stop"
    /\ socket_' = CleanupSocket(socket_)
    /\ caller' = "idle"
    /\ lastOp' = [NoOp EXCEPT !.op = "Stop", !.outcome = "stopped"]
    /\ UNCHANGED <<running_, network_thread_, late, responses, handler, now,
                   issued, header, asio>>

\* UDPServer::Stop from the join on: join returns when NetworkThreadMain
\* has returned, then the socket is closed
StopJoin ==
    /\ ~faulted
    /\ caller = "Stop"
    /\ network_thread_ = "done"
    /\ network_thread_' = "none"
    /\ socket_' = CleanupSocket(socket_)
    /\ caller' = "idle"
    /\ lastOp' = [NoOp EXCEPT !.op = "Stop", !.outcome = "stopped"]
    /\ UNCHANGED <<running_, late, responses, handler, now, issued, header, asio>>

\* faulty variant of NetLoop: the loop goes on while the server is stopping
NetLoop_Drain ==
    /\ ~faulted
    /\ network_thread_ = "loop"
    /\ network_thread_' = "receive"
    /\ UNCHANGED <<running_, socket_, caller, late, responses, handler, now,
                   issued, lastOp, header, asio>>

\* UDPServer::NetworkThreadMain: while (running_)
NetLoop ==
    /\ ~faulted
    /\ network_thread_ = "loop"
    /\ network_thread_' = IF running_ THEN "receive" ELSE "done"
    /\ UNCHANGED <<running_, socket_, caller, late, responses, handler, now,
                   issued, lastOp, header, asio>>

\* the responses a call of HandleClientPacket stamps: server_sequence of a
\* session moves
Stamped(h) ==
    Cardinality({id \in DOMAIN sessions_ \cap DOMAIN h.sessions_ :
        h.sessions_[id].server_sequence # sessions_[id].server_sequence})

\* UDPServer::ProcessIncomingData when recvfrom returns a datagram: it goes
\* to HandleClientPacket
NetReceiveDatagram(data, addr, port, ub, sendto) ==
    /\ ~faulted
    /\ network_thread_ = "receive"
    /\ socket_ # INVALID_SOCKET_VALUE
    /\ (Len(data) >= 2 /\ GetOpcode(data) = SOE_SESSION_REQUEST)
           => Len(issued) < MaxIssued
    /\ LET p == HandleClientPacket(H, socket_, data, addr, port, now, ub, sendto)
       IN  /\ responses + Stamped(p.r.h) <= MaxResponses
           /\ Commit(p.r.h)
           /\ issued' = IssuedAfter(p.r.h)
           /\ responses' = responses + Stamped(p.r.h)
           /\ lastOp' = [NoOp EXCEPT !.op = "ProcessIncomingPacket",
                                     !.addr = addr, !.port = port, !.data = data,
                                     !.session = GetSessionByEndpoint(H, addr, port),
                                     !.count = Cardinality(DOMAIN sessions_),
                                     !.ret = p.ret,
                                     !.out = p.r.out, !.fwd = p.r.fwd]
    /\ late' = IF running_ THEN late ELSE late + 1
    /\ network_thread_' = "update"
    /\ UNCHANGED <<running_, socket_, caller, now, header, asio>>

\* what recvfrom returns when it returns no datagram to handle: -1 with
\* EWOULDBLOCK, -1 with another error, or 0 bytes; it is not called when
\* the socket is closed
RecvFrom(socket) ==
    IF socket = INVALID_SOCKET_VALUE THEN {"closed"}
    ELSE {"EWOULDBLOCK", "error", "empty"}

\* faulty variant of NetReceiveNothing: a socket error ends the loop
NetReceiveNothing_Abort(outcome) ==
    /\ ~faulted
    /\ network_thread_ = "receive"
    /\ outcome \in RecvFrom(socket_)
    /\ network_thread_' = IF outcome = "error" THEN "done" ELSE "update"
    /\ lastOp' = [NoOp EXCEPT !.op = "recvfrom", !.outcome = outcome]
    /\ UNCHANGED <<running_, socket_, caller, late, responses, handler, now,
                   issued, header, asio>>

\* UDPServer::ProcessIncomingData when there is nothing to handle
NetReceiveNothing(outcome) ==
    /\ ~faulted
    /\ network_thread_ = "receive"
    /\ outcome \in RecvFrom(socket_)
    /\ network_thread_' = "update"
    /\ lastOp' = [NoOp EXCEPT !.op = "recvfrom", !.outcome = outcome]
    /\ UNCHANGED <<running_, socket_, caller, late, responses, handler, now,
                   issued, header, asio>>

\* faulty variant of NetUpdate: the iteration goes on without the sweep
NetUpdate_NoSweep ==
    /\ ~faulted
    /\ network_thread_ = "update"
    /\ lastOp' = [NoOp EXCEPT !.op = "Update",
                              !.count = Cardinality(DOMAIN sessions_)]
    /\ network_thread_' = "loop"
    /\ UNCHANGED <<handler, running_, socket_, caller, late, responses, now,
                   issued, header, asio>>

\* UDPServer::NetworkThreadMain: basic_handler->Update(), then the sleep;
\* outcome keeps what recvfrom returned in this iteration
NetUpdate ==
    /\ ~faulted
    /\ network_thread_ = "update"
    /\ Commit(Update(H, now))
    /\ lastOp' = [NoOp EXCEPT !.op = "Update",
                              !.count = Cardinality(DOMAIN sessions_),
                              !.swept = TimedOut(H, now),
                              !.idle = {id \in TimedOut(H, now) :
                                  sessions_[id].state # "Disconnecting"},
                              !.outcome = IF lastOp.op = "recvfrom"
                                          THEN lastOp.outcome ELSE ""]
    /\ network_thread_' = "loop"
    /\ UNCHANGED <<running_, socket_, caller, late, responses, now, issued,
                   header, asio>>

\* udp_server_->SendPacketToSession(session_id, data), called on the network
\* thread as the handlers of LoginServer call it, for any id; swept keeps
\* the ids the sweep before it removed
DoSendPacketToSession(session_id, data, sendto) ==
    /\ ~faulted
    /\ network_thread_ = "receive"
    /\ LET sent == SendPacketToSession(H, socket_, session_id, data, sendto)
       IN  lastOp' = [NoOp EXCEPT !.op = "SendPacketToSession",
                                  !.id = session_id, !.data = data,
                                  !.count = Cardinality(DOMAIN sessions_),
                                  !.ret = sent.ret, !.out = sent.out,
                                  !.swept = IF lastOp.op = "Update"
                                            THEN lastOp.swept ELSE {}]
    /\ UNCHANGED <<handler, server, now, issued, header, asio>>

\* a client's login request: a channel A packet that carries LOGIN_CLIENT_ID
LoginClientIdPacket ==
    AppendCRC(WriteUInt32(SetSequence(SOEPacket(SOE_DATA_CHANNEL_A), 1),
                          LOGIN_CLIENT_ID))

\* a client's request for the cluster list
EnumClusterPacket ==
    AppendCRC(WriteUInt32(SetSequence(SOEPacket(SOE_DATA_CHANNEL_A), 2),
                          LOGIN_ENUM_CLUSTER))

\* a client's request for the cluster status, which is not answered
ClusterStatusPacket ==
    AppendCRC(WriteUInt32(SetSequence(SOEPacket(SOE_DATA_CHANNEL_A), 3),
                          LOGIN_CLUSTER_STATUS))

\* the datagrams the clients of the login server send
LoginDatagrams ==
    { SessionRequestDatagram, <<SOE_DISCONNECT, 0>>, LoginClientIdPacket }

\* the packet the server sends on its own
Notice == WriteData(SetSequence(SOEPacket(SOE_DATA_CHANNEL_A), 0), <<65>>)

NextUdp ==
    \/ \E outcome \in SocketOutcomes : Start(outcome)
    \/ StopBegin
    \/ StopJoin
    \/ NetLoop
    \/ \E data \in LoginDatagrams, addr \in Offender, port \in Ports :
           \E ub \in UseAfterMoveIn(data), sendto \in SendTo :
               NetReceiveDatagram(data, addr, port, ub, sendto)
    \/ \E outcome \in {"EWOULDBLOCK", "error", "empty", "closed"} :
           NetReceiveNothing(outcome)
    \/ NetUpdate
    \/ \E session_id \in DestroyArgs, sendto \in SendTo :
           DoSendPacketToSession(session_id, Notice, sendto)
    \/ Tick

\* the login server: its owner starts and stops it, the network thread
\* receives, dispatches and sweeps, the clock advances
SpecUdp == InitServer /\ [][NextUdp]_vars

\* the same server with a network thread that runs on once it is started:
\* the loop test and the sweep of an iteration are reached and taken
SpecUdpFair == SpecUdp /\ WF_vars(NetLoop) /\ WF_vars(NetUpdate)

----------------------------------------------------------------------------
(* Properties of the server *)

(* C23.  SendPacketToSession(id, bytes) returns false and sends nothing    *)
(* whenever id is not the id of a session in the registry, as after the    *)
(* session was removed by a sweep.                                         *)
C23_SendToRemovedFails ==
    (lastOp.op = "SendPacketToSession" /\ lastOp.id \notin DOMAIN sessions_) =>
        /\ ~lastOp.ret
        /\ lastOp.out = <<>>

\* with the socket open, a packet was sent to the id of a session the sweep
\* before had removed
C23_Witness ==
    /\ lastOp.op = "SendPacketToSession"
    /\ lastOp.id \in lastOp.swept
    /\ lastOp.id \notin DOMAIN sessions_
    /\ socket_ # INVALID_SOCKET_VALUE

\* Stop has returned, and Start was not called since
StopReturned == lastOp.op = "Stop" /\ caller = "idle"

(* C24.  After UDPServer::Stop has returned the server is not running, the *)
(* socket is closed and the network thread is gone: no datagram is         *)
(* received, and no call of ProcessIncomingPacket or Update is made.       *)
C24_StoppedIsQuiet ==
    /\ [](StopReturned =>
              /\ ~running_
              /\ socket_ = INVALID_SOCKET_VALUE
              /\ network_thread_ = "none")
    /\ [][StopReturned =>
              /\ lastOp'.op \notin {"ProcessIncomingPacket", "Update", "recvfrom"}
              /\ HNext = H]_vars

\* Stop has returned from a server that had a session, and that handled a
\* datagram while it was stopping
C24_Witness ==
    /\ StopReturned
    /\ lastOp.outcome = "stopped"
    /\ DOMAIN sessions_ # {}
    /\ late = 1

(* C25.  Once Stop has cleared running_, the network thread handles at     *)
(* most one more datagram before NetworkThreadMain returns.                *)
C25_AtMostOneInFlight == late <= 1

\* the network thread has handled a datagram after running_ was cleared,
\* and has returned
C25_Witness ==
    /\ late = 1
    /\ network_thread_ = "done"
    /\ caller = "Stop"

(* C26.  When socket creation, the switch to non-blocking mode or bind     *)
(* fails, Start returns false, the server is not running, there is no      *)
(* network thread and the socket is closed.                                *)
C26_FailedStartLeavesNothing ==
    (lastOp.op = "Start" /\ lastOp.outcome \in {"socket", "nonblocking", "bind"}) =>
        /\ ~lastOp.ret
        /\ ~running_
        /\ network_thread_ = "none"
        /\ socket_ = INVALID_SOCKET_VALUE

\* bind has failed in a Start that followed a run of the server
C26_Witness ==
    /\ lastOp.op = "Start"
    /\ lastOp.outcome = "bind"
    /\ DOMAIN sessions_ # {}

\* this step is a recvfrom that returns no datagram to handle
ReceivedNothing == network_thread_ = "receive" /\ lastOp'.op = "recvfrom"

(* C27.  The receive loop ends on shutdown only: NetworkThreadMain returns *)
(* from the loop test, when running_ is false; a recvfrom that would       *)
(* block, fails with another error or returns nothing is an iteration like *)
(* any other, that goes on to the sweep and leaves the server running and  *)
(* its socket open; and the loop comes back to recvfrom after it unless    *)
(* the server is stopped.                                                  *)
C27_LoopEndsOnShutdownOnly ==
    /\ [][/\ (network_thread_' = "done" /\ network_thread_ # "done") =>
                 (network_thread_ = "loop" /\ ~running_)
          /\ ReceivedNothing =>
                 /\ network_thread_' = "update"
                 /\ UNCHANGED <<running_, socket_>>
                 /\ HNext = H]_vars
    /\ (lastOp.op = "recvfrom") ~> (network_thread_ = "receive" \/ ~running_)

\* the loop is back at recvfrom after an iteration in which recvfrom failed
C27_Witness ==
    /\ lastOp.op = "Update"
    /\ lastOp.outcome = "error"
    /\ network_thread_ = "receive"
    /\ running_

\* this step is one of the network thread, between the loop test and the
\* end of the iteration
OnNetworkThread ==
    /\ network_thread_ \in {"receive", "update"}
    /\ network_thread_' # network_thread_
    /\ UNCHANGED <<caller, running_, socket_>>

(* C28.  Single writer: every step that changes the session registry or a  *)
(* session is a step of the network thread, and a network thread is        *)
(* started only when there is none.                                        *)
C28_SingleWriter ==
    [][/\ HNext # H => OnNetworkThread
       /\ (network_thread_' = "loop" /\ network_thread_ \notin {"loop", "update"})
              => network_thread_ = "none"]_vars

\* the network thread has answered a login request while the owner of the
\* server was inside Stop
C28_Witness ==
    /\ caller = "Stop"
    /\ lastOp.op = "ProcessIncomingPacket"
    /\ lastOp.out # <<>>
    /\ late = 1

----------------------------------------------------------------------------
(* LoginServer: the sequence numbers of its responses *)

\* the requests the clients of the login server send on channel A, with a
\* packet too short to carry a game opcode, and a session request
LoginRequests ==
    { LoginClientIdPacket, EnumClusterPacket, ClusterStatusPacket, DataPacketA,
      SessionRequestDatagram }

\* the login server late in a session: it is running, and the session of
\* 10.0.0.1:9999 has been sent 2^16 - 2 responses
InitLogin ==
    LET h0 == SetPacketHandler([sessions_            |-> EmptyMap,
                                endpoint_to_session_ |-> EmptyMap,
                                next_session_id_     |-> FreshCounter,
                                packet_handler_      |-> FALSE,
                                faulted              |-> FALSE])
        h1 == HandleSessionRequest(h0, SessionRequestDatagram, "10.0.0.1",
                                   9999, 0, "stale").h
        h  == [h1 EXCEPT !.sessions_[FreshCounter].server_sequence = U16Mod - 2]
    IN  /\ sessions_ = h.sessions_
        /\ endpoint_to_session_ = h.endpoint_to_session_
        /\ next_session_id_ = h.next_session_id_
        /\ packet_handler_ = h.packet_handler_
        /\ faulted = h.faulted
        /\ now = 0
        /\ issued = <<FreshCounter>>
        /\ lastOp = NoOp
        /\ running_ = TRUE
        /\ socket_ = InitializeSocket("ok").socket_
        /\ network_thread_ = "loop"
        /\ caller = "idle"
        /\ late = 0
        /\ responses = 0
        /\ asio = UdpServer
        /\ NoPacket

NextLogin ==
    \/ NetLoop
    \/ \E data \in LoginRequests, addr \in Addrs, port \in Ports :
           \E ub \in UseAfterMoveIn(data), sendto \in SendTo :
               NetReceiveDatagram(data, addr, port, ub, sendto)
    \/ \E outcome \in {"EWOULDBLOCK", "error", "empty"} :
           NetReceiveNothing(outcome)
    \/ NetUpdate

\* the network thread of the login server, answering the requests of its
\* clients
SpecLogin == InitLogin /\ [][NextLogin]_vars

\* the channel A packets this step sends to the endpoint of session id
ResponsesTo(id) ==
    {i \in 1..Len(lastOp'.out) :
        /\ lastOp'.out[i].addr = sessions_'[id].remote_address
        /\ lastOp'.out[i].port = sessions_'[id].remote_port
        /\ GetOpcode(lastOp'.out[i].data) = SOE_DATA_CHANNEL_A}

(* C29.  Response ordering: the response to a request is stamped and sent  *)
(* while the request is processed, before the next datagram is received;   *)
(* each response takes the session's server_sequence plus one, modulo      *)
(* 65536, as its sequence number and leaves it in server_sequence, and     *)
(* nothing else changes server_sequence.  So the responses of a session    *)
(* go out in the order of their requests, numbered one after the other.    *)
C29_ResponsesInOrder ==
    [][\A id \in DOMAIN sessions_ \cap DOMAIN sessions_' :
          LET before == sessions_[id].server_sequence
              after  == sessions_'[id].server_sequence
              request == /\ network_thread_ = "receive"
                         /\ lastOp'.op = "ProcessIncomingPacket"
                         /\ lastOp'.session = id
          IN  /\ after \in {before, (before + 1) % U16Mod}
              /\ after # before =>
                     /\ request
                     /\ Len(lastOp'.out) <= 1
                     /\ ResponsesTo(id) = 1..Len(lastOp'.out)
                     /\ \A i \in ResponsesTo(id) :
                            GetSequence(lastOp'.out[i].data) = after
              /\ (request /\ after = before) => lastOp'.out = <<>>]_vars

\* the response numbered 0 was sent after the one numbered 65535
C29_Witness ==
    /\ lastOp.op = "ProcessIncomingPacket"
    /\ Len(lastOp.out) = 1
    /\ GetSequence(lastOp.out[1].data) = 0
    /\ lastOp.session \in DOMAIN sessions_
    /\ sessions_[lastOp.session].server_sequence = 0
    /\ responses = 2

----------------------------------------------------------------------------
(* SOEPacket: the codec *)

\* the writes and the reads made on one packet
MaxWrites == 2
MaxReads == 2

\* the size the packet may grow to: a string of 65536 characters with its
\* length prefix
MaxBuffer == 65538

\* the uint64_t with the given 32-bit halves
U64(hi, lo) == <<hi, lo>>

\* SOEPacket::WriteUInt64: eight bytes, low byte first
WriteUInt64(data, value) == WriteUInt32(WriteUInt32(data, value[2]), value[1])

\* what a read hands back: the value, the cursor after it, the indexes of
\* data_ the value was taken from, and whether the process died in it
Returned(value, position, indexes) ==
    [value |-> value, read_position_ |-> position, indexes |-> indexes,
     fault |-> FALSE]

\* SOEPacket::ReadUInt8
ReadUInt8(data, position) ==
    IF position >= Len(data) THEN Returned(0, position, {})
    ELSE Returned(data[position + 1], position + 1, {position})

\* faulty variant of ReadUInt16: the cursor moves on when nothing is read
ReadUInt16_Skip(data, position) ==
    IF position + 1 >= Len(data) THEN Returned(0, position + 2, {})
    ELSE Returned(data[position + 1] + data[position + 2] * 256,
                  position + 2, {position, position + 1})

\* SOEPacket::ReadUInt16
ReadUInt16(data, position) ==
    IF position + 1 >= Len(data) THEN Returned(0, position, {})
    ELSE Returned(data[position + 1] + data[position + 2] * 256,
                  position + 2, {position, position + 1})

\* SOEPacket::ReadUInt32, with the cursor
ReadUInt32At(data, position) ==
    Returned(ReadUInt32(data, position),
             IF position + 3 >= Len(data) THEN position ELSE position + 4,
             IF position + 3 >= Len(data) THEN {}
             ELSE position .. (position + 3))

\* SOEPacket::ReadUInt64
ReadUInt64(data, position) ==
    IF position + 7 >= Len(data) THEN Returned(U64(U32(0, 0), U32(0, 0)),
                                               position, {})
    ELSE Returned(U64(ReadUInt32(data, position + 4),
                      ReadUInt32(data, position)),
                  position + 8, position .. (position + 7))

\* &data_[read_position_] with read_position_ = data_.size(): the subscript
\* is out of range, which a build with container assertions ends the process
\* on and any other build makes the end pointer of
SubscriptAtEnd == {"fault", "pointer"}

\* SOEPacket::ReadString
ReadString(data, position, ub) ==
    LET prefix == ReadUInt16(data, position)
        length == prefix.value
        start == prefix.read_position_
    IN  IF start + length > Len(data)
        THEN Returned(<<>>, start, prefix.indexes)
        ELSE IF start >= Len(data) /\ ub = "fault"
        THEN [Returned(<<>>, start, prefix.indexes) EXCEPT !.fault = TRUE]
        ELSE Returned(SubSeq(data, start + 1, start + length),
                      start + length,
                      prefix.indexes \cup (start .. (start + length - 1)))

\* SWGLoginProtocol::read_string, on a buffer and an offset
read_string(data, offset) ==
    IF offset + 2 > Len(data) THEN Returned(<<>>, offset, {})
    ELSE LET length == data[offset + 1] + data[offset + 2] * 256
             start == offset + 2
             prefix == {offset, offset + 1}
         IN  IF length = 0 THEN Returned(<<>>, start, prefix)
             ELSE IF length > 1000 THEN Returned(<<>>, start, prefix)
             ELSE IF start + length > Len(data)
             THEN Returned(<<>>, start, prefix)
             ELSE Returned(SubSeq(data, start + 1, start + length),
                           start + length,
                           prefix \cup (start .. (start + length - 1)))

\* the Write call for a value of the kind
Write(data, kind, value) ==
    CASE kind = "UInt8" -> WriteUInt8(data, value)
      [] kind = "UInt16" -> WriteUInt16(data, value)
      [] kind = "UInt32" -> WriteUInt32(data, value)
      [] kind = "UInt64" -> WriteUInt64(data, value)
      [] kind = "String" -> WriteString(data, value)

\* the Read call for the kind
Read(data, position, kind, ub) ==
    CASE kind = "UInt8" -> ReadUInt8(data, position)
      [] kind = "UInt16" -> ReadUInt16(data, position)
      [] kind = "UInt32" -> ReadUInt32At(data, position)
      [] kind = "UInt64" -> ReadUInt64(data, position)
      [] kind = "String" -> ReadString(data, position, ub)
      [] kind = "read_string" -> read_string(data, position)

\* the bytes the value of the kind takes in the buffer
Needs(data, position, kind) ==
    CASE kind = "UInt8" -> 1
      [] kind = "UInt16" -> 2
      [] kind = "UInt32" -> 4
      [] kind = "UInt64" -> 8
      [] kind \in {"String", "read_string"} ->
             IF position + 2 > Len(data) THEN 2
             ELSE 2 + data[position + 1] + data[position + 2] * 256

\* the zero of the kind
Zero(kind) ==
    CASE kind \in {"UInt8", "UInt16"} -> 0
      [] kind = "UInt32" -> U32(0, 0)
      [] kind = "UInt64" -> U64(U32(0, 0), U32(0, 0))
      [] kind \in {"String", "read_string"} -> <<>>

\* a string of 65536 characters
LongString == [i \in 1..U16Mod |-> 65]

\* the values written: every byte of an integer is different, and the strings
\* are "", "AB", "A\0" and the long one
Written(kind) ==
    CASE kind = "UInt8" -> {171}
      [] kind = "UInt16" -> {513, 3}
      [] kind = "UInt32" -> {U32(1027, 513)}
      [] kind = "UInt64" -> {U64(U32(2055, 1541), U32(1027, 513))}
      [] kind = "String" -> {<<>>, <<65, 66>>, <<65, 0>>, LongString}

WriteKinds == {"UInt8", "UInt16", "UInt32", "UInt64", "String"}

ReadKinds == {"UInt8", "UInt16", "UInt32", "UInt64", "String", "read_string"}

\* SOEPacket packet: an empty packet, beside a handler and a server just
\* constructed
InitCodec ==
    /\ sessions_ = EmptyMap
    /\ endpoint_to_session_ = EmptyMap
    /\ next_session_id_ = FreshCounter
    /\ packet_handler_ = FALSE
    /\ faulted = FALSE
    /\ now = 0
    /\ issued = <<>>
    /\ lastOp = NoOp
    /\ Constructed
    /\ asio = UdpServer
    /\ NoPacket

\* the handler and the server are left alone
CodecOnly ==
    UNCHANGED <<sessions_, endpoint_to_session_, next_session_id_,
                packet_handler_, now, issued, lastOp, server, built, asio>>

\* packet.WriteUInt8(value), WriteUInt16(value), ... WriteString(value); the
\* packet is built before it is read
DoWrite(kind, value) ==
    /\ ~faulted
    /\ got = <<>>
    /\ Len(wrote) < MaxWrites
    /\ Len(Write(data_, kind, value)) <= MaxBuffer
    /\ data_' = Write(data_, kind, value)
    /\ wrote' = Append(wrote, [kind |-> kind, value |-> value])
    /\ UNCHANGED <<read_position_, got, faulted>>
    /\ CodecOnly

\* packet.ReadUInt8(), ReadUInt16(), ... ReadString(), or
\* read_string(data_, read_position_)
DoRead(kind, ub) ==
    /\ ~faulted
    /\ Len(got) < MaxReads
    /\ LET r == Read(data_, read_position_, kind, ub)
       IN  /\ faulted' = r.fault
           /\ read_position_' = r.read_position_
           /\ got' =
                  Append(got, [kind |-> kind, value |-> r.value,
                               fault |-> r.fault,
                               indexes |-> r.indexes,
                               before |-> read_position_,
                               after |-> r.read_position_,
                               size |-> Len(data_),
                               short |-> Len(data_) - read_position_
                                   < Needs(data_, read_position_, kind)])
    /\ UNCHANGED <<data_, wrote>>
    /\ CodecOnly

NextCodec ==
    \/ \E kind \in WriteKinds : \E value \in Written(kind) : DoWrite(kind, value)
    \/ \E kind \in ReadKinds, ub \in SubscriptAtEnd : DoRead(kind, ub)

\* values are written to a packet, and then values are read from it
SpecCodec == InitCodec /\ [][NextCodec]_vars

----------------------------------------------------------------------------
(* Properties of the codec *)

\* each of the first n reads is the Read call that matches the write in its
\* place
ReadBack(n) ==
    /\ n <= Len(wrote)
    /\ \A j \in 1..n : got[j].kind = wrote[j].kind

(* C31.  Codec round trip: values written with WriteUInt8, WriteUInt16,    *)
(* WriteUInt32, WriteUInt64 and WriteString, then read back with the       *)
(* matching Read calls in the same order, are returned unchanged; a string *)
(* is in the buffer as its length in two bytes, low byte first, followed   *)
(* by exactly that many bytes, with no terminator.                         *)
C31_RoundTrip ==
    /\ \A i \in 1..Len(got) :
           ReadBack(i) => /\ ~got[i].fault
                          /\ got[i].value = wrote[i].value
    /\ (Len(wrote) = 1 /\ wrote[1].kind = "String") =>
           /\ Len(data_) = 2 + Len(wrote[1].value)
           /\ data_[1] + data_[2] * 256 = Len(wrote[1].value)
           /\ SubSeq(data_, 3, Len(data_)) = wrote[1].value

(* C34.  Permissive parsing: ReadUInt8, ReadUInt16, ReadUInt32, ReadUInt64 *)
(* or ReadString called when fewer bytes are left than the value needs     *)
(* does not fail, returns zero or the empty string, and leaves the read    *)
(* cursor at the end of the buffer.                                        *)
C34_ShortReadEndsAtEnd ==
    \A i \in 1..Len(got) :
        (got[i].short /\ got[i].kind # "read_string") =>
            /\ ~got[i].fault
            /\ got[i].value = Zero(got[i].kind)
            /\ got[i].after = got[i].size

----------------------------------------------------------------------------
(* SOEPacket: the CRC of a packet *)

\* the length of the buffers a packet is constructed from
MaxPacket == 4

\* the bytes of those buffers
CrcBytes == {0, 1, 255}

\* the buffers of the length
RECURSIVE Buffers(_)
Buffers(n) ==
    IF n = 0 THEN {<<>>}
    ELSE {Append(b, x) : b \in Buffers(n - 1), x \in CrcBytes}

\* SOEPacket packet(data), beside a handler and a server just constructed
InitCrc ==
    /\ sessions_ = EmptyMap
    /\ endpoint_to_session_ = EmptyMap
    /\ next_session_id_ = FreshCounter
    /\ packet_handler_ = FALSE
    /\ faulted = FALSE
    /\ now = 0
    /\ issued = <<>>
    /\ lastOp = NoOp
    /\ Constructed
    /\ asio = UdpServer
    /\ built = NoBuilt
    /\ read_position_ = 0
    /\ wrote = <<>>
    /\ got = <<>>
    /\ \E n \in 0..MaxPacket : data_ \in Buffers(n)

\* faulty variant of DoAppendCRC: the CRC is appended high byte first
DoAppendCRC_BigEndian ==
    /\ Len(wrote) < MaxWrites
    /\ got = <<>>
    /\ data_' = data_ \o <<CalculateCRC(data_) \div 256,
                           CalculateCRC(data_) % 256>>
    /\ wrote' = Append(wrote, [kind |-> "CRC", value |-> CalculateCRC(data_)])
    /\ UNCHANGED <<read_position_, got, faulted>>
    /\ CodecOnly

\* packet.AppendCRC()
DoAppendCRC ==
    /\ Len(wrote) < MaxWrites
    /\ got = <<>>
    /\ data_' = AppendCRC(data_)
    /\ wrote' = Append(wrote, [kind |-> "CRC", value |-> CalculateCRC(data_)])
    /\ UNCHANGED <<read_position_, got, faulted>>
    /\ CodecOnly

\* packet.ValidateCRC() and SOEProtocolHandler::ValidatePacket(data_)
DoValidate ==
    /\ got = <<>>
    /\ got' = <<[kind |-> "Validate", data |-> data_,
                 ValidateCRC |-> ValidateCRC(data_),
                 ValidatePacket |-> ValidatePacket(data_)]>>
    /\ UNCHANGED <<data_, read_position_, wrote, faulted>>
    /\ CodecOnly

NextCrc ==
    \/ DoAppendCRC
    \/ \E value \in CrcBytes : DoWrite("UInt8", value)
    \/ DoValidate

\* a packet is constructed from a buffer, bytes and CRCs are appended to it,
\* and it is validated
SpecCrc == InitCrc /\ [][NextCrc]_vars

\* the last two bytes of the buffer as a uint16_t, low byte first
Stored(data) == data[Len(data) - 1] + data[Len(data)] * 256

\* the buffer without its last two bytes
Covered(data) == SubSeq(data, 1, Len(data) - 2)

(* C32.  CRC round trip: after AppendCRC, ValidateCRC returns true;        *)
(* ValidateCRC returns false for a buffer of fewer than two bytes, and     *)
(* whenever the last two bytes are not the CRC of the bytes before them.   *)
C32_CrcRoundTrip ==
    \A i \in 1..Len(got) :
        LET data == got[i].data
        IN  /\ (wrote # <<>> /\ wrote[Len(wrote)].kind = "CRC") =>
                   got[i].ValidateCRC
            /\ Len(data) < 2 => ~got[i].ValidateCRC
            /\ (Len(data) >= 2 /\ Stored(data) # CalculateCRC(Covered(data)))
                   => ~got[i].ValidateCRC

\* a packet of four bytes with its CRC appended was validated
C32_Witness ==
    /\ got # <<>>
    /\ Len(wrote) = 1
    /\ wrote[1].kind = "CRC"
    /\ Len(got[1].data) = MaxPacket + 2
    /\ got[1].ValidateCRC

(* C33.  ValidatePacket returns true for the buffer 01 00 00 00 and false  *)
(* for every buffer shorter than four bytes.                               *)
C33_MinimalPacketValid ==
    \A i \in 1..Len(got) :
        /\ got[i].data = <<1, 0, 0, 0>> => got[i].ValidatePacket
        /\ Len(got[i].data) < 4 => ~got[i].ValidatePacket

----------------------------------------------------------------------------
(* UDPServer: termination of Stop, and the sweep of every iteration *)

\* UDPServer::ProcessIncomingData: the receive attempt of an iteration,
\* whatever recvfrom returns
ProcessIncomingData ==
    \/ \E outcome \in {"EWOULDBLOCK", "error", "empty", "closed"} :
           NetReceiveNothing(outcome)
    \/ \E data \in LoginDatagrams, addr \in Offender, port \in Ports :
           \E ub \in UseAfterMoveIn(data), sendto \in SendTo :
               NetReceiveDatagram(data, addr, port, ub, sendto)

\* the server with a network thread that is scheduled fairly: the socket is
\* non-blocking, so recvfrom returns, and the sleep of an iteration is one
\* millisecond; join returns once NetworkThreadMain has returned
SpecUdpStop ==
    /\ SpecUdpFair
    /\ WF_vars(ProcessIncomingData)
    /\ WF_vars(StopJoin)

(* C36.  UDPServer::Stop terminates: under fair scheduling of the network  *)
(* thread, every call of Stop on a running server eventually returns, with *)
(* the network thread joined.                                              *)
C36_StopReturns ==
    (caller = "Stop") ~> (StopReturned /\ network_thread_ = "none")

\* the sessions in state Disconnecting
Disconnecting ==
    {id \in DOMAIN sessions_ : sessions_[id].state = "Disconnecting"}

\* this step dispatches a datagram to the handler
Dispatched ==
    /\ network_thread_ = "receive"
    /\ lastOp'.op = "ProcessIncomingPacket"

(* C37.  In the receive loop the sweep runs after every receive attempt,   *)
(* so a session put into Disconnecting by one datagram is removed before   *)
(* the next datagram is dispatched: no datagram is ever dispatched to a    *)
(* session in state Disconnecting.                                         *)
C37_NoDispatchToDisconnecting ==
    /\ [](network_thread_ \in {"loop", "receive"} => Disconnecting = {})
    /\ [][/\ (network_thread_ = "receive" /\ network_thread_' # "receive")
                 => network_thread_' = "update"
          /\ (network_thread_ = "update" /\ network_thread_' # "update")
                 => /\ lastOp'.op = "Update"
                    /\ Disconnecting \subseteq lastOp'.swept
                    /\ HNext = Update(H, now)
          /\ Dispatched =>
                 /\ Disconnecting = {}
                 /\ lastOp'.session # nullptr =>
                        sessions_[lastOp'.session].state # "Disconnecting"]_vars

\* the sweep of an iteration has removed the session that the datagram of
\* that iteration had put into Disconnecting, and the loop is at recvfrom
C37_Witness ==
    /\ network_thread_ = "receive"
    /\ lastOp.op = "Update"
    /\ lastOp.swept # {}
    /\ lastOp.idle = {}
    /\ running_

----------------------------------------------------------------------------
(* Frame of a data packet *)

\* the responses LoginServer stamps for the data packet: one for a login
\* request and one for a request of the cluster list
Answers(data) ==
    IF Len(data) >= 8
           /\ ReadUInt32(data, 4) \in {LOGIN_CLIENT_ID, LOGIN_ENUM_CLUSTER}
    THEN 1 ELSE 0

\* this step dispatches a data-channel datagram of an endpoint that has a
\* session, and the session's sequence numbers and state after it are as
\* BasicSOEHandler::HandleDataPacket leaves them, with server_sequence moved
\* on by `stamped'
DataPacketFrame(stamped) ==
    LET data == lastOp'.data
        session == lastOp'.session
    IN  (/\ Dispatched
         /\ HasOpcode(data, DataChannels)
         /\ session # nullptr) =>
            /\ session \in DOMAIN sessions_'
            /\ sessions_'[session].client_sequence = GetSequence(data)
            /\ sessions_'[session].state = sessions_[session].state
            /\ sessions_'[session].last_acknowledged
                   = sessions_[session].last_acknowledged
            /\ sessions_'[session].server_sequence
                   = (sessions_[session].server_sequence + stamped) % U16Mod

(* C38.  After a data-channel datagram is processed for an existing        *)
(* session, client_sequence is the sequence number of that datagram        *)
(* whatever it was before, so that an older packet lowers it, and the      *)
(* session's state, server_sequence and last_acknowledged are unchanged.   *)
C38_DataPacketFrame == [][DataPacketFrame(0)]_vars

(* C38, amended.  After a data-channel datagram is processed for an        *)
(* existing session, client_sequence is the sequence number of that        *)
(* datagram whatever it was before, the session's state and                *)
(* last_acknowledged are unchanged, and server_sequence is unchanged       *)
(* unless the registered packet handler answers the packet: the login      *)
(* server moves it on by one for each response it stamps.                  *)
C38_DataPacketFrameAmended == [][DataPacketFrame(Answers(lastOp'.data))]_vars

\* the login request, whose sequence number is 1, was handled and answered
\* for a session that had been answered once before: client_sequence is 1
\* and server_sequence has wrapped to 0
C38_Witness ==
    /\ lastOp.op = "ProcessIncomingPacket"
    /\ lastOp.data = LoginClientIdPacket
    /\ lastOp.session # nullptr
    /\ lastOp.session \in DOMAIN sessions_
    /\ sessions_[lastOp.session].client_sequence = 1
    /\ sessions_[lastOp.session].server_sequence = 0

----------------------------------------------------------------------------
(* UdpServer: the boost::asio server *)

\* the receives that complete in a run of the model
MaxReceives == 2

\* what a read of running_ on the IO thread returns.  running_ is a plain
\* bool that stop writes without synchronisation: while the caller is inside
\* stop the read races with that write and returns either value
Racy(u) == IF u.caller = "stop" THEN BOOLEAN ELSE {u.running_}

\* UdpServer::start_receive, `running' being what it reads in running_
start_receive(u, running) ==
    IF ~u.socket_ \/ ~running THEN u
    ELSE [u EXCEPT !.io_context_.outstanding = @ + 1]

\* how an asynchronous receive completes while nothing cancels it: with a
\* datagram, with a datagram of no bytes, or with an error
Completions == {"datagram", "empty", "error"}

\* what the packet handler does with a datagram
PacketHandler == {"returns", "throws"}

\* UdpServer::handle_receive up to the return of the packet handler, or all
\* of it when there is no datagram to deliver; r1 and r2 are what the two
\* reads of running_ return.  An exception of the packet handler leaves
\* handle_receive and io_context_.run()
handle_receive(u, completion, call, r1, r2) ==
    IF completion = "datagram"
    THEN IF u.packet_handler_ /\ call = "throws"
         THEN [u EXCEPT !.io_thread_ = "caught"]
         ELSE [u EXCEPT !.io_thread_ = "handled"]
    ELSE IF completion # "aborted"
    THEN IF r1 THEN start_receive(u, r2) ELSE u
    ELSE u

\* the handler and the UDPServer are left alone
AsioOnly ==
    UNCHANGED <<sessions_, endpoint_to_session_, next_session_id_,
                packet_handler_, faulted, now, issued, lastOp, server, header>>

\* UdpServer::start: the socket is opened and bound, which throws when the
\* port is taken; then one receive is armed and the IO thread is started
start(outcome) ==
    /\ asio.caller = "idle"
    /\ asio.last # "start"
    /\ asio' =
           IF asio.running_ THEN [asio EXCEPT !.last = "start"]
           ELSE IF outcome = "throw"
           THEN [asio EXCEPT !.running_ = FALSE, !.last = "start"]
           ELSE [start_receive([asio EXCEPT !.socket_ = TRUE,
                                            !.running_ = TRUE], TRUE)
                    EXCEPT !.io_thread_ = "loop", !.last = "start"]
    /\ AsioOnly

\* UdpServer::set_packet_handler, before the server is started
set_packet_handler ==
    /\ asio.caller = "idle"
    /\ ~asio.running_
    /\ ~asio.packet_handler_
    /\ asio' = [asio EXCEPT !.packet_handler_ = TRUE]
    /\ AsioOnly

\* UdpServer::stop up to the join: running_ is cleared and the io_context is
\* stopped; a server that is not running returns at once
stop ==
    /\ asio.caller = "idle"
    /\ asio.last # "stop"
    /\ asio' =
           IF ~asio.running_ THEN [asio EXCEPT !.last = "stop"]
           ELSE [asio EXCEPT !.running_ = FALSE,
                             !.io_context_.stopped = TRUE,
                             !.caller = "stop"]
    /\ AsioOnly

\* UdpServer::stop from the join on: the IO thread has returned; closing the
\* socket cancels what is outstanding on it
stop_join ==
    /\ asio.caller = "stop"
    /\ asio.io_thread_ \in {"none", "done"}
    /\ asio' = [asio EXCEPT !.io_thread_ = "none",
                            !.socket_ = FALSE,
                            !.io_context_.outstanding = 0,
                            !.caller = "idle",
                            !.last = "stop"]
    /\ AsioOnly

\* UdpServer::io_thread: while (running_)
io_thread_loop(running) ==
    /\ asio.io_thread_ = "loop"
    /\ running \in Racy(asio)
    /\ asio' = [asio EXCEPT !.io_thread_ = IF running THEN "run" ELSE "done"]
    /\ AsioOnly

\* io_context_.run() returns, because the io_context is stopped or has no
\* work left, and io_thread breaks out of its loop
io_thread_break ==
    /\ asio.io_thread_ = "run"
    /\ asio.io_context_.stopped \/ asio.io_context_.outstanding = 0
    /\ asio' = [asio EXCEPT !.io_thread_ = "done",
                            !.io_context_.stopped = TRUE]
    /\ AsioOnly

\* inside io_context_.run(): an outstanding receive completes and
\* handle_receive is called
io_thread_receive(completion, call, r1, r2) ==
    /\ asio.io_thread_ = "run"
    /\ ~asio.io_context_.stopped
    /\ asio.io_context_.outstanding > 0
    /\ asio.received < MaxReceives
    /\ r1 \in Racy(asio)
    /\ r2 \in Racy(asio)
    /\ asio' = handle_receive([asio EXCEPT !.io_context_.outstanding = @ - 1,
                                           !.received = @ + 1,
                                           !.completion = completion],
                              completion, call, r1, r2)
    /\ AsioOnly

\* UdpServer::handle_receive after the packet handler has returned:
\* start_receive()
io_thread_rearm(running) ==
    /\ asio.io_thread_ = "handled"
    /\ running \in Racy(asio)
    /\ asio' = [start_receive(asio, running) EXCEPT !.io_thread_ = "run"]
    /\ AsioOnly

\* UdpServer::io_thread: the catch clause
io_thread_catch(running) ==
    /\ asio.io_thread_ = "caught"
    /\ running \in Racy(asio)
    /\ asio' = IF ~running THEN [asio EXCEPT !.io_thread_ = "done"]
               ELSE [asio EXCEPT !.io_thread_ = "loop",
                                 !.io_context_.stopped = FALSE]
    /\ AsioOnly

InitAsio ==
    /\ sessions_ = EmptyMap
    /\ endpoint_to_session_ = EmptyMap
    /\ next_session_id_ = FreshCounter
    /\ packet_handler_ = FALSE
    /\ faulted = FALSE
    /\ now = 0
    /\ issued = <<>>
    /\ lastOp = NoOp
    /\ Constructed
    /\ asio = UdpServer
    /\ NoPacket

NextAsio ==
    \/ \E outcome \in {"ok", "throw"} : start(outcome)
    \/ set_packet_handler
    \/ stop
    \/ stop_join
    \/ \E running \in BOOLEAN : io_thread_loop(running)
    \/ io_thread_break
    \/ \E completion \in Completions, call \in PacketHandler :
           \E r1 \in BOOLEAN, r2 \in BOOLEAN :
               io_thread_receive(completion, call, r1, r2)
    \/ \E running \in BOOLEAN : io_thread_rearm(running)
    \/ \E running \in BOOLEAN : io_thread_catch(running)

\* the asio server: its owner starts and stops it, the IO thread runs the
\* io_context
SpecAsio == InitAsio /\ [][NextAsio]_vars

(* C39.  In the asio UdpServer, while the server is running exactly one    *)
(* asynchronous receive is outstanding after every completed receive:      *)
(* handle_receive arms the receive again once after a delivered datagram   *)
(* and once after any error other than operation_aborted, and never arms   *)
(* a receive after stop; also when the packet handler throws.              *)
C39_OneReceiveOutstanding ==
    /\ []((/\ asio.running_
           /\ asio.received > 0
           /\ asio.io_thread_ # "handled") =>
              asio.io_context_.outstanding = 1)
    /\ [][asio'.io_context_.outstanding > asio.io_context_.outstanding
              => asio'.running_]_vars

====
